---- MODULE Spec2Model ----
(***************************************************************************)
(* A model of datalad's `ls` interface (datalad/interface/ls.py): the      *)
(* location dispatch Ls.__call__, the node inspector FsModel, the size     *)
(* converters humanize.naturalsize / machinesize, the tree walker          *)
(* fs_traverse, the dataset walker _ds_traverse, the renderer fs_render,   *)
(* the flat dataset listing _ls_dataset and the S3 listing _ls_s3.         *)
(*                                                                         *)
(* Conventions.  A name is a sequence of one-character strings, a path is  *)
(* the sequence of the names of its components below "/" (paths are kept   *)
(* absolute and normalised, as os.path.abspath returns them).  A byte      *)
(* count is held in TENTHS of a byte: every number the program computes    *)
(* is a sum of products  d.d * 1024^k  of one-decimal numerals, so tenths  *)
(* represent its floats exactly.  A Python exception is the field `exc`    *)
(* of an operator's result; "none" means the call returned.                *)
(***************************************************************************)
EXTENDS Integers, Sequences, FiniteSets, TLC

VARIABLES
    fsys,       \* the file system: path -> node (lstat view)
    repos,      \* the repositories: dataset root path -> what the backend answers
    cwd,        \* the process's current directory
    called,     \* the arguments of the last call ("op" = "none" before any)
    outcome,    \* what the last call did: its routes, exception, output, calls
    conv        \* a byte count on its way through the size converters

vars == <<fsys, repos, cwd, called, outcome, conv>>

----------------------------------------------------------------------------
(* Names and paths *)

n_ds      == <<"d", "s">>
n_a       == <<"a">>
n_a2      == <<"a", "2">>
n_b       == <<"b">>
n_c       == <<".", "c">>
n_e       == <<"e">>
n_f       == <<"f">>
n_g       == <<"g">>
n_k       == <<"k">>
n_S       == <<"S">>
n_T       == <<"T">>
n_sub     == <<"s", "u", "b">>
n_ss      == <<"s", "s">>
n_plain   == <<"p">>
n_gone    == <<"x">>
n_git     == <<".", "g", "i", "t">>
n_annex   == <<"a", "n", "n", "e", "x">>
n_dirjson == <<".", "d", "i", "r", ".", "j", "s", "o", "n">>
n_index   == <<"i", "n", "d", "e", "x", ".", "h", "t", "m", "l">>
n_dot     == <<".">>
n_dotdot  == <<".", ".">>

p_ds    == <<n_ds>>
p_S     == <<n_ds, n_S>>
p_T     == <<n_ds, n_S, n_T>>
p_sub   == <<n_ds, n_sub>>
p_ss    == <<n_ds, n_sub, n_ss>>
p_plain == <<n_plain>>
p_gone  == <<n_gone>>
p_obj   == <<n_ds, n_git, n_annex, n_k>>

\* The directories of the universe, and the names an entry of one may have.
DirPaths == {p_ds, p_S, p_T, p_sub, p_ss, p_plain}

\* Every path the file system may hold a node at.
Paths ==
    DirPaths
    \cup {Append(d, n_dirjson) : d \in DirPaths}
    \cup {Append(d, n_git) : d \in {p_ds, p_sub, p_ss}}
    \cup {<<n_ds, n_git, n_annex>>, p_obj}
    \cup {Append(p_ds, n) : n \in {n_a, n_a2, n_c, n_index}}
    \cup {Append(p_S, n_b), Append(p_T, n_e), Append(p_sub, n_f), Append(p_ss, n_g)}

\* The order in which listdir reports the names of a directory's entries.
ListOrder ==
    <<n_git, n_dirjson, n_c, n_a, n_a2, n_b, n_e, n_f, n_g, n_index,
      n_S, n_T, n_sub, n_ss>>

----------------------------------------------------------------------------
(* Records *)

\* A human-readable size "<number> <unit>" is the record of its numeral, in
\* tenths, and its unit word: "1.5 kB" is HS(15, "kB"), "7 Bytes" is HS(70, "Bytes").
HS(t, u) == [tenths |-> t, unit |-> u]
\* A size that is a number, not a string, as machinesize may be handed.
Num(t)   == [tenths |-> t, unit |-> "(number)"]

\* The keys of the dictionary FsModel.size returns.
SizeTypes == {"total", "ondisk", "git", "annex", "annex_worktree"}

\* The dictionary fs_extract returns ('date' left out): `size` maps size types
\* to human-readable sizes, `nodes` is empty for a dictionary without that key.
NoSize  == [t \in {} |-> HS(0, "Bytes")]
Meta(name, path, repo, ty, size, nodes) ==
    [name |-> name, path |-> path, repo |-> repo, type |-> ty, size |-> size,
     nodes |-> nodes]
NoMeta  == Meta(<<>>, <<>>, <<>>, "None", NoSize, <<>>)

\* An assignment `x = e` followed by code K that uses x: e is evaluated once.
Bind(e, K(_)) == CHOOSE r \in {K(x) : x \in {e}} : TRUE

----------------------------------------------------------------------------
(* The file system, as the os / os.path calls of ls.py see it *)

NoTarget  == [abs |-> TRUE, path |-> <<>>]
NoContent == [written |-> FALSE, meta |-> NoMeta]
NoNode    == [kind |-> "none", st_size |-> 0, target |-> NoTarget, content |-> NoContent]

FileNode(size)    == [kind |-> "file", st_size |-> size, target |-> NoTarget, content |-> NoContent]
DirNode           == [kind |-> "dir", st_size |-> 0, target |-> NoTarget, content |-> NoContent]
LinkNode(abs, tp) == [kind |-> "symlink", st_size |-> 0,
                      target |-> [abs |-> abs, path |-> tp], content |-> NoContent]
\* A sidecar file holding the record json.dump wrote.
JsonNode(meta)    == [kind |-> "file", st_size |-> 0, target |-> NoTarget,
                      content |-> [written |-> TRUE, meta |-> meta]]

\* Symbolic links the kernel follows in one path resolution before it gives up.
MaxLinkHops == 2

Front(s) == SubSeq(s, 1, Len(s) - 1)
Last(s)  == s[Len(s)]

Lookup(F, p) == IF p \in DOMAIN F THEN F[p] ELSE NoNode

\* The kernel's path resolution: `base` is resolved, `rest` is still to walk.
\* The last component is followed when it is a link only with followLast.
RECURSIVE Walk(_, _, _, _, _)
Walk(F, base, rest, hops, followLast) ==
    IF rest = <<>> THEN [ok |-> TRUE, path |-> base]
    ELSE LET cand == Append(base, Head(rest))
             n    == Lookup(F, cand)
             last == Len(rest) = 1
         IN  IF n.kind = "none" THEN [ok |-> FALSE, path |-> <<>>]
             ELSE IF n.kind = "symlink" /\ (~last \/ followLast)
             THEN IF hops = 0 THEN [ok |-> FALSE, path |-> <<>>]
                  ELSE Walk(F, IF n.target.abs THEN <<>> ELSE base,
                            n.target.path \o Tail(rest), hops - 1, followLast)
             ELSE IF ~last /\ n.kind # "dir" THEN [ok |-> FALSE, path |-> <<>>]
             ELSE Walk(F, cand, Tail(rest), hops, followLast)

\* os.stat / os.lstat: the node a path names (NoNode when the call fails).
stat(F, p) ==
    LET w == Walk(F, <<>>, p, MaxLinkHops, TRUE)
    IN  IF w.ok /\ w.path # <<>> THEN Lookup(F, w.path)
        ELSE IF w.ok THEN DirNode ELSE NoNode
lstat(F, p) ==
    LET w == Walk(F, <<>>, p, MaxLinkHops, FALSE)
    IN  IF w.ok /\ w.path # <<>> THEN Lookup(F, w.path)
        ELSE IF w.ok THEN DirNode ELSE NoNode
realpath(F, p) == Walk(F, <<>>, p, MaxLinkHops, TRUE).path

exists(F, p)  == stat(F, p).kind # "none"
lexists(F, p) == lstat(F, p).kind # "none"
isdir(F, p)   == stat(F, p).kind = "dir"
isfile(F, p)  == stat(F, p).kind = "file"
islink(F, p)  == lstat(F, p).kind = "symlink"
readlink(F, p) == lstat(F, p).target
isabs(t)      == t.abs
opj(p, n)     == Append(p, n)
dirname(p)    == IF p = <<>> THEN <<>> ELSE Front(p)

\* os.listdir of a directory: the names of its entries, "." and ".." left out.
listdir(F, p) ==
    LET real == realpath(F, p)
    IN  SelectSeq(ListOrder, LAMBDA n : Lookup(F, Append(real, n)).kind # "none")

----------------------------------------------------------------------------
(* Size/unit conversion *)

\* humanize's decimal suffixes (humanize.filesize.suffixes['decimal']).
suffixes == <<"kB", "MB", "GB", "TB", "PB", "EB", "ZB", "YB">>

\* format '%.1f' of q + (top + low)/1000, where top is the next three decimal
\* digits and `sticky` says that digits below them are not all zero.  Where the
\* number lies exactly between two numerals the double's binary expansion
\* decides; `tie` says which way: "even", "down" or "up".
round_tenth(q, top, sticky, tie) ==
    IF top > 500 \/ (top = 500 /\ sticky) THEN q + 1
    ELSE IF top < 500 THEN q
    ELSE IF tie = "up" \/ (tie = "even" /\ q % 2 = 1) THEN q + 1 ELSE q

\* The loop `for i, s in enumerate(suffix)` of naturalsize, with its fall-through
\* to the last suffix: qprev is bytes / 1000^(i-1) in tenths, cut.
RECURSIVE natural_loop(_, _, _, _)
natural_loop(qprev, sticky, i, tie) ==
    LET q   == qprev \div 1000
        top == qprev % 1000
    IN  IF q < 10000 \/ i = Len(suffixes)
        THEN HS(round_tenth(q, top, sticky, tie), suffixes[i])
        ELSE natural_loop(q, sticky \/ top # 0, i + 1, tie)

naturalsize_tie(value, tie) ==
    IF value = 10 THEN HS(10, "Byte")
    ELSE IF value < 10 * 1000 THEN HS(10 * (value \div 10), "Bytes")
    ELSE natural_loop(value, FALSE, 1, tie)

\* humanize.naturalsize(value) with its defaults (binary=False, gnu=False,
\* format='%.1f'): base 1000.  `value` is the byte count in tenths.
naturalsize(value) == naturalsize_tie(value, "even")

\* The strings naturalsize may return for a byte count: one, or the two
\* neighbouring numerals at an exact tie.
naturalsizes(value) == {naturalsize_tie(value, "down"), naturalsize_tie(value, "up")}

\* Whether naturalsize(value) formats a number that lies exactly between two
\* one-decimal numerals.
RECURSIVE tie_loop(_, _, _)
tie_loop(qprev, sticky, i) ==
    LET q   == qprev \div 1000
        top == qprev % 1000
    IN  IF q < 10000 \/ i = Len(suffixes) THEN top = 500 /\ ~sticky
        ELSE tie_loop(q, sticky \/ top # 0, i + 1)
rounding_tie(value) == value >= 10 * 1000 /\ tie_loop(value, FALSE, 1)

RECURSIVE Pow(_, _)
Pow(b, e) == IF e = 0 THEN 1 ELSE b * Pow(b, e - 1)

unit_converter ==
    [u \in {"Bytes", "kB", "MB", "GB", "TB", "PB"} |->
        CASE u = "Bytes" -> 0 [] u = "kB" -> 1 [] u = "MB" -> 2
          [] u = "GB" -> 3 [] u = "TB" -> 4 [] u = "PB" -> 5]

\* machinesize(humansize): the byte count, in tenths, or the exception raised.
machinesize(humansize) ==
    IF humansize.unit = "(number)"
    THEN [exc |-> "none", val |-> humansize.tenths]
    ELSE IF humansize.unit \notin DOMAIN unit_converter
    THEN [exc |-> "KeyError", val |-> 0]
    ELSE [exc |-> "none",
          val |-> humansize.tenths * Pow(1024, unit_converter[humansize.unit])]

----------------------------------------------------------------------------
(* The repositories: what Dataset, GitRepo and AnnexRepo answer *)

\* A repository object: AnnexRepo when `annex`, else GitRepo; None when `none`.
Repo(p, annex) == [none |-> FALSE, path |-> p, annex |-> annex]
NoneRepo       == [none |-> TRUE, path |-> <<>>, annex |-> FALSE]

\* Dataset(path).repo: the repository rooted at path, None when there is none.
Dataset_repo(F, R, path) ==
    IF exists(F, opj(path, n_git)) /\ realpath(F, path) \in DOMAIN R
    THEN Repo(path, R[realpath(F, path)].annex)
    ELSE NoneRepo

\* Dataset(path).is_installed()
is_installed(F, R, path) == exists(F, path) /\ ~Dataset_repo(F, R, path).none

\* Dataset.get_subdatasets(): the paths, relative to the dataset's, of the
\* sub-datasets it registers, installed or not (direct ones only).
get_subdatasets(R, repo) == R[repo.path].subdatasets

\* AnnexRepo.is_under_annex, .info(path)['size'], .file_has_content
is_under_annex(R, repo, path)   == path \in DOMAIN R[repo.path].keys
annex_info_size(R, repo, path)  == R[repo.path].keys[path]
file_has_content(F, repo, path) == exists(F, path)

\* GitModel.git_local_size, AnnexModel.annex_local_size, .annex_worktree_size
git_local_size(R, repo)      == R[repo.path].git_size
annex_local_size(R, repo)    == R[repo.path].annex_size
annex_worktree_size(R, repo) == R[repo.path].worktree_size

----------------------------------------------------------------------------
(* Node inspector: FsModel and fs_extract *)

\* FsModel.symlink: the path the link points to, None unless it is a link
\* whose target exists.
symlink(F, path) ==
    IF islink(F, path)
    THEN LET t           == readlink(F, path)
             target_path == IF isabs(t) THEN t.path ELSE dirname(path) \o t.path
         IN  IF exists(F, target_path) THEN [some |-> TRUE, path |-> target_path]
             ELSE [some |-> FALSE, path |-> <<>>]
    ELSE [some |-> FALSE, path |-> <<>>]

\* A variant of FsModel.type_ that does not tell a broken link from a link.
type_unbroken(F, path) ==
    IF islink(F, path) THEN "link"
    ELSE IF isfile(F, path) THEN "file"
    ELSE IF exists(F, path \o <<n_git, n_annex>>) THEN "annex"
    ELSE IF exists(F, opj(path, n_git)) THEN "git"
    ELSE IF isdir(F, path) THEN "dir"
    ELSE "None"

\* FsModel.type_
type_(F, path) ==
    IF islink(F, path) THEN (IF symlink(F, path).some THEN "link" ELSE "link-broken")
    ELSE IF isfile(F, path) THEN "file"
    ELSE IF exists(F, path \o <<n_git, n_annex>>) THEN "annex"
    ELSE IF exists(F, opj(path, n_git)) THEN "git"
    ELSE IF isdir(F, path) THEN "dir"
    ELSE "None"

ZeroSizes == [t \in SizeTypes |-> 0]

\* FsModel.size: the byte counts (tenths) by category, or the exception
\* (`self.repo.path` raises AttributeError when the repository is None).
FsModel_size(F, R, path, repo) ==
    IF repo.none THEN [exc |-> "AttributeError", sizes |-> ZeroSizes]
    ELSE
    Bind(type_(F, path), LAMBDA ty :
    Bind(repo.annex /\ is_under_annex(R, repo, path), LAMBDA annexed :
    Bind(IF annexed THEN 10 * annex_info_size(R, repo, path)
         ELSE IF ty = "link-broken" THEN 0
         ELSE Bind(symlink(F, path), LAMBDA sl :
              10 * lstat(F, IF sl.some THEN sl.path ELSE path).st_size), LAMBDA size :
    Bind(IF annexed /\ ~file_has_content(F, repo, path) THEN 0 ELSE size,
         LAMBDA ondisk_size :
    Bind(ty \in {"file", "link", "link-broken"}, LAMBDA sized :
    Bind(repo.path = path, LAMBDA root :
        [exc |-> "none",
         sizes |-> [t \in SizeTypes |->
            CASE t = "total"  -> IF sized THEN size ELSE 0
              [] t = "ondisk" -> IF sized THEN ondisk_size ELSE 0
              [] t = "git"    -> IF root THEN 10 * git_local_size(R, repo) ELSE 0
              [] t = "annex"  -> IF root THEN 10 * annex_local_size(R, repo) ELSE 0
              [] t = "annex_worktree" ->
                    IF root THEN 10 * annex_worktree_size(R, repo) ELSE 0]]))))))

\* leaf_name(path)
leaf_name(path) == IF path = <<>> THEN <<>> ELSE Last(path)

fs_extract(F, R, nodepath, repo) ==
    Bind(FsModel_size(F, R, nodepath, repo), LAMBDA sz :
        LET pretty_size == [t \in SizeTypes |-> naturalsize(sz.sizes[t])]
            name == IF leaf_name(nodepath) # <<>> THEN leaf_name(nodepath)
                    ELSE leaf_name(repo.path)
        IN  IF sz.exc # "none" THEN [exc |-> sz.exc, fs |-> NoMeta]
            ELSE [exc |-> "none",
                  fs |-> Meta(name, nodepath, repo.path, type_(F, nodepath),
                              pretty_size, <<>>)])

\* A variant of `ignored` that ignores nothing.
ignored_nothing(F, path, only_hidden) == FALSE

\* ignored(path, only_hidden)
ignored(F, path, only_hidden) ==
    IF (isdir(F, opj(path, n_git)) \/ isdir(F, path \o <<n_git, n_annex>>)) /\ ~only_hidden
    THEN TRUE
    ELSE IF n_dot = <<leaf_name(path)[1]>> \/ leaf_name(path) = n_index
    THEN TRUE
    ELSE FALSE

----------------------------------------------------------------------------
(* Renderer *)

\* A variant of fs_render whose "delete" mode removes nothing.
fs_render_keep(F, path, fs_metadata, json) ==
    LET sidecar == opj(realpath(F, path), n_dirjson)
    IN  IF json = "file" /\ isdir(F, path)
        THEN [exc |-> "none", F |-> [F EXCEPT ![sidecar] = JsonNode(fs_metadata)],
              printed |-> <<>>]
        ELSE [exc |-> "none", F |-> F, printed |-> <<>>]

\* fs_render(path, fs_metadata, json): the exception, the file system
\* afterwards and the documents printed.  open(..., 'w') raises when `path` is
\* no directory; fs_traverse and _ds_traverse call it on directories only.
fs_render(F, path, fs_metadata, json) ==
    LET sidecar == opj(realpath(F, path), n_dirjson)
    IN  IF json = "file"
        THEN IF isdir(F, path)
             THEN [exc |-> "none", F |-> [F EXCEPT ![sidecar] = JsonNode(fs_metadata)],
                   printed |-> <<>>]
             ELSE [exc |-> "IOError", F |-> F, printed |-> <<>>]
        ELSE IF json = "delete"
        THEN [exc |-> "none",
              F |-> IF exists(F, opj(path, n_dirjson))
                    THEN [F EXCEPT ![sidecar] = NoNode] ELSE F,
              printed |-> <<>>]
        ELSE IF json = "display"
        THEN [exc |-> "none", F |-> F, printed |-> <<fs_metadata>>]
        ELSE [exc |-> "none", F |-> F, printed |-> <<>>]

----------------------------------------------------------------------------
(* Tree walker *)

\* What a walk has done so far, in order: the listdir, fs_extract and fs_render
\* calls made and the returns of fs_traverse (from a directory) and _ds_traverse,
\* each with the function `by` that did it, its path and, for fs_render and a
\* return, the record rendered or returned (for fs_render also the mode).
Ev(by, op, path, meta, json) ==
    [by |-> by, op |-> op, path |-> path, meta |-> meta, json |-> json]

\* The `parent` argument: a dictionary, or None.
SomeParent(fs) == [some |-> TRUE, fs |-> fs]
NoParent       == [some |-> FALSE, fs |-> NoMeta]

\* The summing loops of fs_traverse and _ds_traverse over a list of size
\* dictionaries: per size type the sum of machinesize of the sizes recorded,
\* a type a dictionary lacks adding nothing; KeyError when machinesize raises.
RECURSIVE sum_type(_, _, _)
sum_type(size_list, t, i) ==
    IF i > Len(size_list) THEN 0
    ELSE (IF t \in DOMAIN size_list[i] THEN machinesize(size_list[i][t]).val ELSE 0)
         + sum_type(size_list, t, i + 1)

children_size(size_list) ==
    LET types == UNION {DOMAIN size_list[i] : i \in 1..Len(size_list)}
    IN  IF \E i \in 1..Len(size_list) : \E t \in DOMAIN size_list[i] :
               machinesize(size_list[i][t]).exc # "none"
        THEN [exc |-> "KeyError", sizes |-> NoSize]
        ELSE [exc |-> "none",
              sizes |-> [t \in types |-> naturalsize(sum_type(size_list, t, 1))]]

\* The result of fs_traverse: the exception or the dictionary returned, the
\* caller's `parent` dictionary as the call left it, the file system and the
\* things printed and done.
TResult(exc, fs, parent, F, printed, log) ==
    [exc |-> exc, fs |-> fs, parent |-> parent, F |-> F, printed |-> printed, log |-> log]

\* The two conditions of the loop of fs_traverse on an entry: whether it is
\* appended to the children, and whether fs_traverse is called on it.
\* A variant of `descended` that does not ask for `recursive`.
descended_always(F, nodepath, recursive) == ~ignored(F, nodepath, FALSE)

appended(F, nodepath)           == ~ignored(F, nodepath, TRUE)
descended(F, nodepath, recursive) == recursive /\ ~ignored(F, nodepath, FALSE)

RECURSIVE fs_traverse(_, _, _, _, _, _, _, _, _, _)
RECURSIVE traverse_children(_, _, _, _, _, _, _, _, _, _)

\* The loop `for node in listdir(path)` of fs_traverse from entry `nodes` on:
\* `children` is the list built so far.  Its result holds `children` in `fs.nodes`.
traverse_children(F, R, path, repo, recursive, json, nodes, children, printed, log) ==
    IF nodes = <<>>
    THEN TResult("none", Meta(<<>>, <<>>, <<>>, "None", NoSize, children), NoParent,
                 F, printed, log)
    ELSE
    LET nodepath == opj(path, Head(nodes))
        listed   == appended(F, nodepath)
        descend  == descended(F, nodepath, recursive)
        log1     == IF listed
                    THEN Append(log, Ev("fs_traverse", "fs_extract", nodepath, NoMeta, "None"))
                    ELSE log
    IN  Bind(IF listed THEN fs_extract(F, R, nodepath, repo)
             ELSE [exc |-> "none", fs |-> NoMeta], LAMBDA ex :
        IF ex.exc # "none"
        THEN TResult(ex.exc, NoMeta, NoParent, F, printed, log)
        ELSE
        Bind(IF listed THEN Append(children, ex.fs) ELSE children, LAMBDA children1 :
        IF ~descend
        THEN traverse_children(F, R, path, repo, recursive, json, Tail(nodes),
                               children1, printed, log1)
        ELSE
        Bind(fs_traverse(F, R, nodepath, repo, SomeParent(children1[1]), TRUE,
                         recursive, json, printed, log1), LAMBDA subdir :
        IF subdir.exc # "none"
        THEN TResult(subdir.exc, NoMeta, NoParent, subdir.F, subdir.printed, subdir.log)
        ELSE
        \* children[0] is the dictionary the call was given as `parent`
        traverse_children(subdir.F, R, path, repo, recursive, json, Tail(nodes),
                          [children1 EXCEPT ![1] = subdir.parent.fs,
                                            ![Len(children1)].size = subdir.fs.size],
                          subdir.printed, subdir.log))))

\* A variant of pseudo_entries that leaves the name of the self-entry as the
\* loop left it.
pseudo_entries_unnamed(children, sizes, parent) ==
    LET self == [children[1] EXCEPT !.size = sizes]
    IN  IF parent.some
        THEN <<self, [parent.fs EXCEPT !.name = n_dotdot]>> \o Tail(children)
        ELSE <<self>> \o Tail(children)

\* The children list fs_traverse ends with: children[0] gets the summed sizes
\* and the name '.', and `parent`, named '..', is inserted after it.
pseudo_entries(children, sizes, parent) ==
    LET self == [children[1] EXCEPT !.size = sizes, !.name = n_dot]
    IN  IF parent.some
        THEN <<self, [parent.fs EXCEPT !.name = n_dotdot]>> \o Tail(children)
        ELSE <<self>> \o Tail(children)

\* fs_traverse(path, repo, parent, render, recursive, json)
fs_traverse(F, R, path, repo, parent, render, recursive, json, printed, log) ==
    LET log0 == Append(log, Ev("fs_traverse", "fs_extract", path, NoMeta, "None"))
        log1 == log0 \o <<Ev("fs_traverse", "fs_extract", path, NoMeta, "None"),
                          Ev("fs_traverse", "listdir", path, NoMeta, "None")>>
        parent1 == IF parent.some THEN SomeParent([parent.fs EXCEPT !.name = n_dotdot])
                   ELSE parent
    IN  Bind(fs_extract(F, R, path, repo), LAMBDA fs0 :
        IF fs0.exc # "none" THEN TResult(fs0.exc, NoMeta, parent, F, printed, log)
        ELSE IF ~isdir(F, path) THEN TResult("none", fs0.fs, parent, F, printed, log0)
        ELSE
        Bind(traverse_children(F, R, path, repo, recursive, json, listdir(F, path),
                               <<fs0.fs>>, printed, log1), LAMBDA loop :
        IF loop.exc # "none"
        THEN TResult(loop.exc, NoMeta, parent, loop.F, loop.printed, loop.log)
        ELSE
        Bind(loop.fs.nodes, LAMBDA children :
        Bind(children_size([i \in 1..(Len(children) - 1) |-> children[i + 1].size]),
             LAMBDA summed :
        IF summed.exc # "none"
        THEN TResult(summed.exc, NoMeta, parent, loop.F, loop.printed, loop.log)
        ELSE
            Bind([fs0.fs EXCEPT !.size = summed.sizes,
                                !.nodes = pseudo_entries(children, summed.sizes, parent)],
                 LAMBDA fs :
            IF render
            THEN Bind(fs_render(loop.F, path, fs, json), LAMBDA out :
                 TResult(out.exc, fs, parent1, out.F, loop.printed \o out.printed,
                         loop.log \o <<Ev("fs_traverse", "fs_render", path, fs, json),
                                       Ev("fs_traverse", "return", path, fs, json)>>))
            ELSE TResult("none", fs, parent1, loop.F, loop.printed,
                         Append(loop.log, Ev("fs_traverse", "return", path, fs, json))))))))

----------------------------------------------------------------------------
(* Dataset walker *)

\* A Dataset argument: the dataset at `path`, or None.
SomeDs(path) == [some |-> TRUE, path |-> path]
NoDs         == [some |-> FALSE, path |-> <<>>]

RECURSIVE _ds_traverse(_, _, _, _, _, _, _, _, _)
RECURSIVE traverse_subdatasets(_, _, _, _, _, _, _, _, _)

\* The loop `for subds_path in rootds.get_subdatasets()` of _ds_traverse from
\* `subs` on; its result holds size_list in `fs.nodes` (as dictionaries' sizes).
traverse_subdatasets(F, R, rootds, json, recursive, subs, size_list, printed, log) ==
    IF subs = <<>>
    THEN TResult("none", Meta(<<>>, <<>>, <<>>, "None", NoSize, size_list), NoParent,
                 F, printed, log)
    ELSE
    \* `all` is not passed on: the nested call runs with its default, False
    Bind(_ds_traverse(F, R, opj(rootds, Head(subs)), SomeDs(rootds), json, recursive,
                      FALSE, printed, log), LAMBDA subfs :
    IF subfs.exc # "none"
    THEN TResult(subfs.exc, NoMeta, NoParent, subfs.F, subfs.printed, subfs.log)
    ELSE traverse_subdatasets(subfs.F, R, rootds, json, recursive, Tail(subs),
                              Append(size_list, subfs.fs), subfs.printed, subfs.log))

\* _ds_traverse(rootds, parent, json, recursive, all), rootds = Dataset(rootds)
_ds_traverse(F, R, rootds, parent, json, recursive, all, printed, log) ==
    LET repo == Dataset_repo(F, R, rootds)
        log0 == IF parent.some
                THEN Append(log, Ev("_ds_traverse", "fs_extract", parent.path, NoMeta, "None"))
                ELSE log
        subs == IF all THEN get_subdatasets(R, repo) ELSE <<>>
    IN  Bind(IF parent.some
             THEN fs_extract(F, R, parent.path, Dataset_repo(F, R, parent.path))
             ELSE [exc |-> "none", fs |-> NoMeta], LAMBDA fsparent :
        IF fsparent.exc # "none"
        THEN TResult(fsparent.exc, NoMeta, NoParent, F, printed, log)
        ELSE
        Bind(fs_traverse(F, R, rootds, repo,
                         IF parent.some THEN SomeParent(fsparent.fs) ELSE NoParent,
                         FALSE, recursive, json, printed, log0), LAMBDA fs :
        IF fs.exc # "none"
        THEN TResult(fs.exc, NoMeta, NoParent, fs.F, fs.printed, fs.log)
        ELSE
        Bind(traverse_subdatasets(fs.F, R, rootds, json, recursive, subs,
                                  <<fs.fs>>, fs.printed, fs.log), LAMBDA loop :
        IF loop.exc # "none"
        THEN TResult(loop.exc, NoMeta, NoParent, loop.F, loop.printed, loop.log)
        ELSE
        Bind(children_size([i \in 1..Len(loop.fs.nodes) |-> loop.fs.nodes[i].size]),
             LAMBDA summed :
        IF summed.exc # "none"
        THEN TResult(summed.exc, NoMeta, NoParent, loop.F, loop.printed, loop.log)
        ELSE
        Bind([fs.fs EXCEPT !.size = summed.sizes], LAMBDA fs1 :
        Bind(fs_render(loop.F, rootds, fs1, json), LAMBDA out :
        TResult(out.exc, fs1, NoParent, out.F, loop.printed \o out.printed,
                loop.log \o <<Ev("_ds_traverse", "fs_render", rootds, fs1, json),
                              Ev("_ds_traverse", "return", rootds, fs1, json)>>)))))))

\* _ls_json(loc, fast, recursive, all, json)
_ls_json(F, R, loc, json, recursive, all) ==
    _ds_traverse(F, R, loc, NoDs, json, recursive, all, <<>>, <<>>)

----------------------------------------------------------------------------
(* Listing dispatch *)

\* Location strings, as sequences of characters.
l_dot   == <<".">>
l_ds    == <<"/", "d", "s">>
l_S     == <<"/", "d", "s", "/", "S">>
l_plain == <<"/", "p">>
l_gone  == <<"/", "x">>
l_s3    == <<"s", "3", ":", "/", "/", "b", "/", "k">>
l_s3ish == <<"s", "3", ":", "/", "d", "s">>

s3_prefix == <<"s", "3", ":", "/", "/">>

startswith(str, prefix) ==
    Len(str) >= Len(prefix) /\ SubSeq(str, 1, Len(prefix)) = prefix

\* The components of a path string between its "/" separators.
RECURSIVE split_path(_, _, _)
split_path(str, cur, acc) ==
    IF str = <<>> THEN (IF cur = <<>> THEN acc ELSE Append(acc, cur))
    ELSE IF Head(str) = "/"
    THEN split_path(Tail(str), <<>>, IF cur = <<>> THEN acc ELSE Append(acc, cur))
    ELSE split_path(Tail(str), Append(cur, Head(str)), acc)

\* os.path.abspath of a path string, for the process's current directory.
abspath(wd, str) ==
    LET comps == SelectSeq(split_path(str, <<>>, <<>>), LAMBDA c : c # n_dot)
    IN  IF str # <<>> /\ Head(str) = "/" THEN comps ELSE wd \o comps

\* What one location of a call came to.
Routed(loc, route) == [loc |-> loc, route |-> route]

\* The result of Ls.__call__: the exception, the route of every location
\* reached, the file system, the json documents printed and the calls made.
LsResult(exc, routes, F, printed, log) ==
    [exc |-> exc, routes |-> routes, F |-> F, printed |-> printed, log |-> log]

\* A variant of Ls.__call__ for a location string that does not ask whether
\* a dataset is installed at an existing path.
Ls_call_str_unchecked(F, R, wd, loc, recursive, all, json) ==
    LET path == abspath(wd, loc)
    IN  IF startswith(loc, s3_prefix)
        THEN LsResult("none", <<Routed(loc, "_ls_s3")>>, F, <<>>, <<>>)
        ELSE IF lexists(F, path)
        THEN IF json # "None"
             THEN Bind(_ls_json(F, R, path, json, recursive, all), LAMBDA walk :
                  LsResult(walk.exc, <<Routed(loc, "_ls_json")>>, walk.F, walk.printed,
                           walk.log))
             ELSE LsResult("none", <<Routed(loc, "_ls_dataset")>>, F, <<>>, <<>>)
        ELSE LsResult("none", <<Routed(loc, "unknown")>>, F, <<>>, <<>>)

\* Ls.__call__ for a location string.
Ls_call_str(F, R, wd, loc, recursive, all, json) ==
    LET path == abspath(wd, loc)
    IN  IF startswith(loc, s3_prefix)
        THEN LsResult("none", <<Routed(loc, "_ls_s3")>>, F, <<>>, <<>>)
        ELSE IF lexists(F, path)
        THEN IF ~is_installed(F, R, path)
             THEN LsResult("ValueError", <<Routed(loc, "ValueError")>>, F, <<>>, <<>>)
             ELSE IF json # "None"
             THEN Bind(_ls_json(F, R, path, json, recursive, all), LAMBDA walk :
                  LsResult(walk.exc, <<Routed(loc, "_ls_json")>>, walk.F, walk.printed,
                           walk.log))
             ELSE LsResult("none", <<Routed(loc, "_ls_dataset")>>, F, <<>>, <<>>)
        ELSE LsResult("none", <<Routed(loc, "unknown")>>, F, <<>>, <<>>)

\* The list comprehension of Ls.__call__ over a list of locations, from `locs`
\* on: an exception ends it.
RECURSIVE Ls_call_list(_, _, _, _, _, _, _, _)
Ls_call_list(F, R, wd, locs, recursive, all, json, acc) ==
    IF locs = <<>> THEN acc
    ELSE Bind(Ls_call_str(F, R, wd, Head(locs), recursive, all, json), LAMBDA one :
         Bind(LsResult(one.exc, acc.routes \o one.routes, one.F,
                       acc.printed \o one.printed, acc.log \o one.log), LAMBDA acc1 :
         IF one.exc # "none" THEN acc1
         ELSE Ls_call_list(one.F, R, wd, Tail(locs), recursive, all, json, acc1)))

\* Ls.__call__(loc, recursive, fast, all, config_file, list_content, json),
\* loc a list of location strings.
Ls_call(F, R, wd, loc, recursive, all, json) ==
    IF loc = <<>>
    THEN Ls_call_str(F, R, wd, l_dot, recursive, all, json)
    ELSE Ls_call_list(F, R, wd, loc, recursive, all, json,
                      LsResult("none", <<>>, F, <<>>, <<>>))

----------------------------------------------------------------------------
(* Flat dataset listing: GitModel, AnnexModel, format_ds_model, _ls_dataset *)

\* The backend queries of a repository that raise: a repository of `repos`
\* that records none answers every query.
GitQueries == {"get_active_branch", "describe", "get_branch_commits", "dirty", "repo_info"}
failing(R, repo) == IF "failing" \in DOMAIN R[repo.path] THEN R[repo.path].failing ELSE {}

\* Dataset.get_subdatasets(recursive=True): the paths, relative to the
\* dataset's, of its sub-datasets and of those of every installed one.
RECURSIVE get_subdatasets_recursive(_, _, _, _)
get_subdatasets_recursive(F, R, path, subs) ==
    IF subs = <<>> THEN <<>>
    ELSE LET sm   == Head(subs)
             repo == Dataset_repo(F, R, opj(path, sm))
             below == IF repo.none THEN <<>>
                      ELSE get_subdatasets_recursive(F, R, opj(path, sm),
                                                     get_subdatasets(R, repo))
         IN  <<<<sm>>>> \o [i \in 1..Len(below) |-> <<sm>> \o below[i]]
             \o get_subdatasets_recursive(F, R, path, Tail(subs))

\* A path as the string os.path writes it, and the characters of the strings
\* of the model in the order Python compares them.
RECURSIVE path_str(_)
path_str(p) == IF p = <<>> THEN <<>> ELSE <<"/">> \o Head(p) \o path_str(Tail(p))

Ascii ==
    <<".", "/", "2", "3", ":", "S", "T", "a", "b", "d", "e", "f", "g", "h", "i",
      "j", "k", "l", "m", "n", "o", "p", "s", "t", "u", "x">>
ord(c) == CHOOSE i \in 1..Len(Ascii) : Ascii[i] = c

\* s < t for two strings
RECURSIVE str_lt(_, _)
str_lt(s, t) ==
    IF t = <<>> THEN FALSE
    ELSE IF s = <<>> THEN TRUE
    ELSE IF Head(s) # Head(t) THEN ord(Head(s)) < ord(Head(t))
    ELSE str_lt(Tail(s), Tail(t))

\* An AnnexModel: its repository (None for a dataset that is not installed)
\* and the path set on it (_path; `unset` while it is None).
DsModel(repo, unset, path) == [repo |-> repo, unset |-> unset, path |-> path]

\* GitModel.path (the getter): AttributeError when the repository is None
GitModel_path(dsm) ==
    IF ~dsm.unset THEN [exc |-> "none", val |-> dsm.path]
    ELSE IF dsm.repo.none THEN [exc |-> "AttributeError", val |-> <<>>]
    ELSE [exc |-> "none", val |-> path_str(dsm.repo.path)]

\* GitModel.branch, .describe, .date: None ("-") when the backend raises
GitModel_branch(R, repo) ==
    IF "get_active_branch" \in failing(R, repo) THEN "-" ELSE "master"
GitModel_describe(R, repo) ==
    IF "describe" \in failing(R, repo) THEN "-" ELSE "v1"
GitModel_date(R, repo) ==
    IF "get_branch_commits" \in failing(R, repo) THEN "-" ELSE "2016-01-01/00:00:00"
\* GitModel.type
GitModel_type(repo) == IF repo.annex THEN "annex" ELSE "git"

\* AnnexModel.clean: `not self.repo.dirty`, or the exception the backend raises
AnnexModel_clean(R, repo) ==
    IF "dirty" \in failing(R, repo) THEN [exc |-> "CommandError", val |-> "-"]
    ELSE [exc |-> "none",
          val |-> IF "dirty" \in DOMAIN R[repo.path] /\ R[repo.path].dirty
                  THEN "X" ELSE "OK"]

\* AnnexModel.info: self.repo.repo_info(), or the exception it raises
AnnexModel_info(R, repo) ==
    IF "repo_info" \in failing(R, repo) THEN "CommandError" ELSE "none"

\* A line _ls_dataset prints: the path, the error message ("" when there is
\* none) and the columns after the path.
NoCols == [type |-> "", branch |-> "", describe |-> "", date |-> "", clean |-> "",
           sizes |-> <<>>]
DsLine(path, msg, cols) == [path |-> path, msg |-> msg, cols |-> cols]

\* format_ds_model(formatter, ds_model, format_str, format_exc): full_fmt
\* has the column `clean` when (not fast) or all, and the sizes when all.
format_ds_model(F, R, wd, ds_model, fast, all) ==
    IF ~exists(F, abspath(wd, ds_model.path)) \/ ds_model.repo.none
    THEN DsLine(ds_model.path, "not installed", NoCols)
    ELSE
    Bind(IF ~fast \/ all THEN AnnexModel_clean(R, ds_model.repo)
         ELSE [exc |-> "none", val |-> ""], LAMBDA clean :
    Bind(IF all THEN AnnexModel_info(R, ds_model.repo) ELSE "none", LAMBDA info :
    IF clean.exc # "none" THEN DsLine(ds_model.path, clean.exc, NoCols)
    ELSE IF info # "none" THEN DsLine(ds_model.path, info, NoCols)
    ELSE DsLine(ds_model.path, "",
                [type |-> GitModel_type(ds_model.repo),
                 branch |-> GitModel_branch(R, ds_model.repo),
                 describe |-> GitModel_describe(R, ds_model.repo),
                 date |-> GitModel_date(R, ds_model.repo),
                 clean |-> clean.val,
                 sizes |-> IF all
                           THEN <<naturalsize(10 * annex_local_size(R, ds_model.repo)),
                                  naturalsize(10 * annex_worktree_size(R, ds_model.repo))>>
                           ELSE <<>>])))

\* The loop `for ds_model in dsms` that adjusts the path strings, from place i
\* on: the exception of the path getter ends it.
RECURSIVE adjust_paths(_, _, _)
adjust_paths(dsms, topdir, i) ==
    IF i > Len(dsms) THEN [exc |-> "none", dsms |-> dsms]
    ELSE Bind(GitModel_path(dsms[i]), LAMBDA got :
         IF got.exc # "none" THEN [exc |-> got.exc, dsms |-> dsms]
         ELSE LET from == IF topdir # <<>> THEN Len(topdir) + 2 ELSE 1
                  path == SubSeq(got.val, from, Len(got.val))
              IN  adjust_paths([dsms EXCEPT ![i] =
                                   DsModel(dsms[i].repo, FALSE,
                                           IF path = <<>> THEN l_dot ELSE path)],
                               topdir, i + 1))

\* sorted(dsms, key=lambda m: m.path): a stable insertion sort
RECURSIVE insert_sorted(_, _)
insert_sorted(sorted, m) ==
    IF sorted = <<>> THEN <<m>>
    ELSE IF str_lt(m.path, Head(sorted).path) THEN <<m>> \o sorted
    ELSE <<Head(sorted)>> \o insert_sorted(Tail(sorted), m)

RECURSIVE sorted_by_path(_, _)
sorted_by_path(dsms, acc) ==
    IF dsms = <<>> THEN acc
    ELSE sorted_by_path(Tail(dsms), insert_sorted(acc, Head(dsms)))

\* _ls_dataset(loc, fast, recursive, all): the exception and the lines printed
_ls_dataset(F, R, wd, loc, fast, recursive, all) ==
    LET topdir == IF loc # <<>> /\ Head(loc) = "/" THEN <<>> ELSE path_str(wd)
        top    == abspath(wd, loc)
        topds  == Dataset_repo(F, R, top)
        sms    == IF recursive /\ ~topds.none
                  THEN get_subdatasets_recursive(F, R, top, get_subdatasets(R, topds))
                  ELSE <<>>
        dss    == <<topds>> \o [i \in 1..Len(sms) |-> Dataset_repo(F, R, top \o sms[i])]
        dsms   == [i \in 1..Len(dss) |-> DsModel(dss[i], TRUE, <<>>)]
    IN  Bind(adjust_paths(dsms, topdir, 1), LAMBDA adjusted :
        IF adjusted.exc # "none" THEN [exc |-> adjusted.exc, lines |-> <<>>]
        ELSE Bind(sorted_by_path(adjusted.dsms, <<>>), LAMBDA sorted :
             [exc |-> "none",
              lines |-> [i \in 1..Len(sorted) |->
                            format_ds_model(F, R, wd, sorted[i], fast, all)]]))

----------------------------------------------------------------------------
(* S3 listing: _ls_s3 *)

\* The position of the first c in the string s from place i on; 0 when none.
RECURSIVE index_of(_, _, _)
index_of(s, c, i) ==
    IF i > Len(s) THEN 0 ELSE IF s[i] = c THEN i ELSE index_of(s, c, i + 1)

\* One ui.message / ui.error call: what it is about, the entry's name and,
\* for the last piece of a key's line, the texts of its URL check, ACL and
\* content.
S3Out(what, name, urlok, acl, content) ==
    [what |-> what, name |-> name, urlok |-> urlok, acl |-> acl, content |-> content]
S3Msg(what) == S3Out(what, <<>>, "", "", "")

\* What the listing methods return: Prefix, Key and DeleteMarker objects.
S3Entry(kind, name, is_latest) == [kind |-> kind, name |-> name, is_latest |-> is_latest]

\* The connection: conn.get_bucket, with conn.get_all_buckets to fall back on
\* (config_file given), or the provider's authenticator (none given).
s3_connect(store, bucket_name, config_file) ==
    IF config_file
    THEN IF store.get_bucket = "ok" THEN [exc |-> "none", out |-> <<>>]
         ELSE IF store.get_all_buckets = "S3ResponseError"
         THEN [exc |-> "S3ResponseError", out |-> <<S3Msg("E: Cannot access bucket by name")>>]
         ELSE IF bucket_name \in store.all_bucket_names
         THEN [exc |-> "none",
               out |-> <<S3Msg("E: Cannot access bucket by name"),
                         S3Msg("I: Found following buckets")>>]
         ELSE [exc |-> "RuntimeError",
               out |-> <<S3Msg("E: Cannot access bucket by name"),
                         S3Msg("I: Found following buckets")>>]
    ELSE IF ~store.provider THEN [exc |-> "ValueError", out |-> <<>>]
         ELSE IF store.get_bucket # "ok" THEN [exc |-> store.get_bucket, out |-> <<>>]
         ELSE [exc |-> "none", out |-> <<>>]

\* The loop over bucket.get_versioning_status, get_website_endpoint, get_acl:
\* the text of each, the first line of the exception's when it raises.
s3_bucket_info(store) ==
    [iname \in {"Versioning", "Website", "ACL"} |->
        IF iname \in store.info_failing THEN "S3ResponseError" ELSE "ok"]

\* The loop `for acc in ACCESS_METHODS`: the list the first method that does
\* not raise returns; None when both raise.
s3_access(store, recursive) ==
    LET flat(es) == IF recursive THEN SelectSeq(es, LAMBDA e : e.kind # "Prefix") ELSE es
    IN  IF store.list_versions = "ok"
        THEN [none |-> FALSE, entries |-> flat(store.versions)]
        ELSE IF store.list = "ok"
        THEN [none |-> FALSE, entries |-> flat(store.keys)]
        ELSE [none |-> TRUE, entries |-> <<>>]

\* The body of `for e in prefix_all_versions` for one entry
s3_entry(store, e, all, list_content) ==
    LET head == S3Out("head", e.name, "", "", "")
        size == S3Out("size", e.name, "", "", "")
        urlok == IF store.urlopen = "ok" THEN "OK" ELSE "E: code"
        acl   == IF store.key_get_acl = "ok" THEN "acl" ELSE "S3ResponseError"
        fetch == IF store.get_contents = "ok" THEN " content" ELSE " S3ResponseError"
    IN  IF e.kind = "Prefix"
        THEN [exc |-> "none", out |-> <<S3Out("prefix", e.name, "", "", "")>>]
        ELSE IF e.kind # "Key"
        THEN [exc |-> "none", out |-> <<head, S3Out("type", e.name, "", "", "")>>]
        ELSE IF ~(e.is_latest \/ all)
        THEN [exc |-> "none", out |-> <<head, size, S3Out("skipped", e.name, "", "", "")>>]
        ELSE IF store.urlopen = "URLError"
        THEN [exc |-> "URLError", out |-> <<head, size>>]
        ELSE IF list_content = "None"
        THEN [exc |-> "none", out |-> <<head, size, S3Out("key", e.name, urlok, acl, "")>>]
        ELSE IF list_content \in {"full", "first10", "md5"}
        THEN [exc |-> "none", out |-> <<head, size, S3Out("key", e.name, urlok, acl, fetch)>>]
        ELSE [exc |-> "ValueError", out |-> <<head, size>>]

\* The loop `for e in prefix_all_versions` from place i on
RECURSIVE s3_entries(_, _, _, _, _, _)
s3_entries(store, entries, i, all, list_content, out) ==
    IF i > Len(entries) THEN [exc |-> "none", out |-> out]
    ELSE Bind(s3_entry(store, entries[i], all, list_content), LAMBDA one :
         IF one.exc # "none" THEN [exc |-> one.exc, out |-> out \o one.out]
         ELSE s3_entries(store, entries, i + 1, all, list_content, out \o one.out))

\* _ls_s3(loc, fast, recursive, all, config_file, list_content) against the
\* object store `store`: the exception and the ui.message / ui.error calls.
_ls_s3(store, loc, recursive, all, config_file, list_content) ==
    IF ~startswith(loc, s3_prefix) THEN [exc |-> "ValueError", out |-> <<>>]
    ELSE
    LET bucket_prefix == SubSeq(loc, 6, Len(loc))
        slash         == index_of(bucket_prefix, "/", 1)
        bucket_name   == SubSeq(bucket_prefix, 1, slash - 1)
        prefix0       == SubSeq(bucket_prefix, slash + 1, Len(bucket_prefix))
        query         == index_of(prefix0, "?", 1)
        out0          == (IF query # 0 THEN <<S3Msg("We do not care about URL options")>>
                          ELSE <<>>) \o <<S3Msg("Connecting to bucket")>>
    IN  IF slash = 0 THEN [exc |-> "ValueError", out |-> <<>>]
        ELSE
        Bind(s3_connect(store, bucket_name, config_file), LAMBDA conn :
        IF conn.exc # "none" THEN [exc |-> conn.exc, out |-> out0 \o conn.out]
        ELSE
        Bind(out0 \o conn.out
             \o <<S3Out("Bucket info", <<>>, "", s3_bucket_info(store)["ACL"], "")>>,
             LAMBDA out1 :
        Bind(s3_access(store, recursive), LAMBDA got :
        IF got.none
        THEN \* `for e in None`
             [exc |-> "TypeError", out |-> Append(out1, S3Msg("No output was provided"))]
        ELSE IF got.entries = <<>>
        THEN [exc |-> "none", out |-> Append(out1, S3Msg("No output was provided"))]
        ELSE s3_entries(store, got.entries, 1, all, list_content, out1))))

----------------------------------------------------------------------------
(* The worlds a call may find *)

\* A record some earlier run left in a sidecar file.
StaleMeta == Meta(<<"o", "l", "d">>, <<>>, <<>>, "dir", NoSize, <<>>)

\* What /ds/a is, and whether the dataset is annex-backed:
\*   f<n>      a regular file of n bytes
\*   dangling  a symbolic link to a missing path
\*   annexed   a file under annex (key of 3000 bytes) whose content is present
\*   dropped   a file under annex whose content is not present
AChoices ==
    {[a |-> v, annex |-> FALSE] : v \in {"none", "f100", "f3000", "f1", "dangling"}}
    \cup {[a |-> v, annex |-> TRUE] : v \in {"f100", "dangling", "annexed", "dropped"}}
A2Choices  == {"none", "f924"}
\* The directory /ds/S: missing, empty, or holding b (a file, a link to /ds/a,
\* a dangling relative link) and a directory T (empty or holding e).
SChoices   == {"none", "empty", "b3000", "blink", "bdangling", "T", "b3000Te"}
\* /ds/S holding b, a link to a directory: to T beside it (which holds e), to
\* S itself, to the dataset root /ds, or to the directory /p outside the dataset.
LinkChoices == {"bT", "bS", "bds", "bplain"}
\* The sub-dataset /ds/sub: not registered, registered but not installed,
\* installed with a file f, and with a sub-dataset ss of its own.
SubChoices == {"none", "uninstalled", "f3000", "nested"}

KeySize == 3000

World(ac, a2, hidden, sc, subc) ==
    LET a == ac.a
        hasS   == sc # "none"
        hasT   == sc \in {"T", "b3000Te", "bT"}
        hasSub == subc # "none"
        inst   == subc \in {"f3000", "nested"}
        nested == subc = "nested"
        node(p) ==
            CASE p = p_ds -> DirNode
              [] p = opj(p_ds, n_git) -> DirNode
              [] p = <<n_ds, n_git, n_annex>> -> IF ac.annex THEN DirNode ELSE NoNode
              [] p = p_obj -> IF a = "annexed" THEN FileNode(KeySize) ELSE NoNode
              [] p = opj(p_ds, n_a) ->
                    (CASE a = "none" -> NoNode
                       [] a = "f100" -> FileNode(100)
                       [] a = "f3000" -> FileNode(3000)
                       [] a = "f1" -> FileNode(1)
                       [] a = "dangling" -> LinkNode(TRUE, p_gone)
                       [] a \in {"annexed", "dropped"} -> LinkNode(TRUE, p_obj))
              [] p = opj(p_ds, n_a2) -> IF a2 = "f924" THEN FileNode(924) ELSE NoNode
              [] p = opj(p_ds, n_c) -> IF hidden THEN FileNode(50) ELSE NoNode
              [] p = opj(p_ds, n_index) -> IF hidden THEN FileNode(70) ELSE NoNode
              [] p = opj(p_ds, n_dirjson) -> IF hidden THEN JsonNode(StaleMeta) ELSE NoNode
              [] p = p_S -> IF hasS THEN DirNode ELSE NoNode
              [] p = opj(p_S, n_dirjson) ->
                    IF hasS /\ hidden THEN JsonNode(StaleMeta) ELSE NoNode
              [] p = opj(p_S, n_b) ->
                    (CASE sc \in {"b3000", "b3000Te"} -> FileNode(3000)
                       [] sc = "blink" -> LinkNode(TRUE, opj(p_ds, n_a))
                       [] sc = "bdangling" -> LinkNode(FALSE, <<n_gone>>)
                       [] sc = "bT" -> LinkNode(TRUE, p_T)
                       [] sc = "bS" -> LinkNode(TRUE, p_S)
                       [] sc = "bds" -> LinkNode(TRUE, p_ds)
                       [] sc = "bplain" -> LinkNode(TRUE, p_plain)
                       [] OTHER -> NoNode)
              [] p = p_T -> IF hasT THEN DirNode ELSE NoNode
              [] p = opj(p_T, n_e) ->
                    IF sc \in {"b3000Te", "bT"} THEN FileNode(100) ELSE NoNode
              [] p = p_sub -> IF hasSub THEN DirNode ELSE NoNode
              [] p = opj(p_sub, n_git) -> IF inst THEN DirNode ELSE NoNode
              [] p = opj(p_sub, n_f) -> IF inst THEN FileNode(3000) ELSE NoNode
              [] p = p_ss -> IF nested THEN DirNode ELSE NoNode
              [] p = opj(p_ss, n_git) -> IF nested THEN DirNode ELSE NoNode
              [] p = opj(p_ss, n_g) -> IF nested THEN FileNode(100) ELSE NoNode
              [] p = p_plain -> DirNode
              [] OTHER -> NoNode
        repo(p) ==
            [annex |-> p = p_ds /\ ac.annex,
             keys |-> IF p = p_ds /\ a \in {"annexed", "dropped"}
                      THEN [q \in {opj(p_ds, n_a)} |-> KeySize]
                      ELSE [q \in {} |-> 0],
             subdatasets |-> IF p = p_ds /\ hasSub THEN <<n_sub>>
                             ELSE IF p = p_sub /\ nested THEN <<n_ss>>
                             ELSE <<>>,
             git_size |-> 2000,
             annex_size |-> IF p = p_ds /\ a = "annexed" THEN KeySize ELSE 0,
             worktree_size |-> IF p = p_ds /\ a \in {"annexed", "dropped"}
                               THEN KeySize ELSE 0]
    IN  [F |-> [p \in Paths |-> node(p)],
         R |-> [p \in {p_ds} \cup (IF inst THEN {p_sub} ELSE {})
                             \cup (IF nested THEN {p_ss} ELSE {}) |-> repo(p)]]

Worlds ==
    {World(ac, a2, hidden, sc, subc) :
        ac \in AChoices, a2 \in A2Choices, hidden \in BOOLEAN,
        sc \in SChoices, subc \in SubChoices}

----------------------------------------------------------------------------
(* The listing command as a state machine: one call of Ls.__call__ per run *)

JsonModes == {"None", "file", "display", "delete"}

\* A count in the converters: the byte count `b` it started as, its current
\* machine value (tenths), its current human-readable string, the number of
\* times it was parsed back, and where it is: "bytes" (a number), "human" (a
\* string), "raised" (machinesize raised an exception), "idle" (none).
Conv(stage, b, value, human, level) ==
    [stage |-> stage, b |-> b, value |-> value, human |-> human, level |-> level]
IdleConv == Conv("idle", 0, 0, HS(0, "Bytes"), 0)

NotCalled == [op |-> "none", loc |-> <<>>, recursive |-> FALSE, all |-> FALSE,
              json |-> "None"]

\* datalad ls [-r] [-a] [--json MODE] LOC...
Ls(loc, recursive, all, json) ==
    /\ called.op = "none"
    /\ called' = [op |-> "ls", loc |-> loc, recursive |-> recursive, all |-> all,
                  json |-> json]
    /\ outcome' = Ls_call(fsys, repos, cwd, loc, recursive, all, json)
    /\ fsys' = outcome'.F
    /\ UNCHANGED <<repos, cwd, conv>>

\* Spec: the command run on the dataset /ds, in every world.
Init ==
    /\ \E w \in Worlds : fsys = w.F /\ repos = w.R
    /\ cwd = p_ds
    /\ called = NotCalled
    /\ outcome = LsResult("none", <<>>, fsys, <<>>, <<>>)
    /\ conv = IdleConv

Next ==
    \E recursive \in BOOLEAN, all \in BOOLEAN, json \in JsonModes :
        Ls(<<l_ds>>, recursive, all, json)

Spec == Init /\ [][Next]_vars

\* SpecLs: the command run on every kind of location list, from two working
\* directories, in a few worlds.
LocLists ==
    {<<>>, <<l_ds>>, <<l_S>>, <<l_plain>>, <<l_gone>>, <<l_s3>>, <<l_s3ish>>,
     <<l_plain, l_ds>>, <<l_gone, l_ds>>, <<l_ds, l_s3, l_gone>>}

LsWorlds ==
    {World(ac, "none", FALSE, sc, subc) :
        ac \in {[a |-> "f100", annex |-> FALSE], [a |-> "dropped", annex |-> TRUE]},
        sc \in {"none", "b3000"}, subc \in {"none", "f3000"}}

InitLs ==
    /\ \E w \in LsWorlds : fsys = w.F /\ repos = w.R
    /\ cwd \in {p_ds, p_plain}
    /\ called = NotCalled
    /\ outcome = LsResult("none", <<>>, fsys, <<>>, <<>>)
    /\ conv = IdleConv

NextLs ==
    \E loc \in LocLists, recursive \in BOOLEAN, all \in BOOLEAN, json \in JsonModes :
        Ls(loc, recursive, all, json)

SpecLs == InitLs /\ [][NextLs]_vars

----------------------------------------------------------------------------
(* The size converters as a state machine: a byte count is made a string, as
   fs_extract and the roll-ups do, and parsed back, as the next roll-up does *)

\* Byte counts up to MaxBytes and a few larger ones, around the unit steps.
MaxBytes == 120
ByteSamples ==
    {924, 999, 1000, 1023, 1024, 1025, 1500, 1536, 2048, 3000, 3072, 10240,
     999999, 1000000, 1024000, 1048576, 2097152, 3145728}
ByteCounts == (0..MaxBytes) \cup ByteSamples

\* Levels of roll-up a size passes through.
MaxLevels == 3

NoWorld == [F |-> [p \in Paths |-> NoNode], R |-> [p \in {} |-> 0]]

InitConv ==
    /\ fsys = NoWorld.F /\ repos = NoWorld.R /\ cwd = <<>>
    /\ called = NotCalled
    /\ outcome = LsResult("none", <<>>, fsys, <<>>, <<>>)
    /\ \E b \in ByteCounts : conv = Conv("bytes", b, 10 * b, HS(0, "Bytes"), 0)

\* humanize.naturalsize(svalue), ls.py lines 416, 523 and 580
Humanize ==
    /\ conv.stage = "bytes"
    /\ \E h \in naturalsizes(conv.value) :
          conv' = [conv EXCEPT !.stage = "human", !.human = h]
    /\ UNCHANGED <<fsys, repos, cwd, called, outcome>>

\* machinesize(child_size), ls.py lines 520 and 577
Machinize ==
    /\ conv.stage = "human"
    /\ conv.level < MaxLevels
    /\ LET m == machinesize(conv.human)
       IN  conv' = IF m.exc # "none" THEN [conv EXCEPT !.stage = "raised"]
                   ELSE [conv EXCEPT !.stage = "bytes", !.value = m.val,
                                     !.level = conv.level + 1]
    /\ UNCHANGED <<fsys, repos, cwd, called, outcome>>

NextConv == Humanize \/ Machinize

SpecConv == InitConv /\ [][NextConv]_vars

----------------------------------------------------------------------------
(* The renderer as a state machine: fs_render called again and again *)

\* The records handed to fs_render.
RenderMetas ==
    {StaleMeta,
     Meta(n_S, p_S, p_ds, "dir", [t \in SizeTypes |-> HS(0, "Bytes")], <<>>),
     Meta(n_ds, p_ds, p_ds, "git", NoSize, <<>>)}

\* The directories it is called on: two that may hold a sidecar file already
\* and one that may be missing.
RenderPaths == {p_ds, p_S, p_T}

RenderWorlds ==
    {World([a |-> "f100", annex |-> FALSE], "none", hidden, sc, "none") :
        hidden \in BOOLEAN, sc \in {"none", "empty", "T"}}

InitRender ==
    /\ \E w \in RenderWorlds : fsys = w.F /\ repos = w.R
    /\ cwd = p_ds
    /\ called = NotCalled
    /\ outcome = LsResult("none", <<>>, fsys, <<>>, <<>>)
    /\ conv = IdleConv

\* fs_render(path, fs_metadata, json=json)
Render(path, fs_metadata, json) ==
    LET out == fs_render(fsys, path, fs_metadata, json)
    IN  /\ called' = [op |-> "fs_render", loc |-> path, recursive |-> FALSE,
                      all |-> FALSE, json |-> json, meta |-> fs_metadata]
        /\ outcome' = LsResult(out.exc, <<>>, out.F, out.printed, <<>>)
        /\ fsys' = out.F
        /\ UNCHANGED <<repos, cwd, conv>>

NextRender ==
    \E path \in RenderPaths, fs_metadata \in RenderMetas, json \in JsonModes :
        Render(path, fs_metadata, json)

SpecRender == InitRender /\ [][NextRender]_vars

----------------------------------------------------------------------------
(* The flat dataset listing as a state machine: one call of _ls_dataset *)

\* A repository whose backend raises on the queries `fails` and reports the
\* working tree dirty or not.
WithBackend(r, fails, dirty) ==
    [annex |-> r.annex, keys |-> r.keys, subdatasets |-> r.subdatasets,
     git_size |-> r.git_size, annex_size |-> r.annex_size,
     worktree_size |-> r.worktree_size, failing |-> fails, dirty |-> dirty]

\* The failures one repository's backend may show.
BackendFailures ==
    {{}, {"dirty"}, {"repo_info"}, {"get_active_branch", "describe", "get_branch_commits"}}

DsWorlds ==
    {World(ac, "none", FALSE, "none", subc) :
        ac \in {[a |-> "f100", annex |-> FALSE], [a |-> "annexed", annex |-> TRUE]},
        subc \in SubChoices}

InitDs ==
    /\ \E w \in DsWorlds : \E bad \in DOMAIN w.R : \E fails \in BackendFailures :
       \E dirty \in BOOLEAN :
          /\ fsys = w.F
          /\ repos = [p \in DOMAIN w.R |->
                         IF p = bad THEN WithBackend(w.R[p], fails, dirty)
                         ELSE WithBackend(w.R[p], {}, FALSE)]
    /\ cwd = p_ds
    /\ called = NotCalled
    /\ outcome = LsResult("none", <<>>, fsys, <<>>, <<>>)
    /\ conv = IdleConv

\* _ls_dataset(loc, fast=fast, recursive=recursive, all=all)
LsDataset(loc, fast, recursive, all) ==
    /\ called.op = "none"
    /\ called' = [op |-> "_ls_dataset", loc |-> loc, recursive |-> recursive,
                  all |-> all, json |-> "None", fast |-> fast]
    /\ \E out \in {_ls_dataset(fsys, repos, cwd, loc, fast, recursive, all)} :
          outcome' = LsResult(out.exc, <<Routed(loc, "_ls_dataset")>>, fsys,
                              out.lines, <<>>)
    /\ UNCHANGED <<fsys, repos, cwd, conv>>

NextDs ==
    \E loc \in {l_dot, l_ds}, fast \in BOOLEAN, recursive \in BOOLEAN, all \in BOOLEAN :
        LsDataset(loc, fast, recursive, all)

SpecDs == InitDs /\ [][NextDs]_vars

----------------------------------------------------------------------------
(* The S3 listing as a state machine: one call of _ls_s3 on an object store *)

l_s3q    == <<"s", "3", ":", "/", "/", "b", "/", "k", "?", "x">>
l_s3bare == <<"s", "3", ":", "/", "/", "b">>

n_bucket == <<"b">>

\* What the bucket holds below the prefix: a common prefix, a key with an old
\* version, and a key that was deleted.
S3Versions ==
    <<S3Entry("Prefix", <<"k", "/">>, FALSE), S3Entry("Key", <<"k", "1">>, TRUE),
      S3Entry("Key", <<"k", "1">>, FALSE), S3Entry("DeleteMarker", <<"k", "2">>, FALSE)>>
S3Keys ==
    <<S3Entry("Prefix", <<"k", "/">>, FALSE), S3Entry("Key", <<"k", "1">>, TRUE)>>

\* The object stores a call may meet: which requests fail, and how.
S3Store(gb, found, inf, lv, ls, empty, url, acl, cont) ==
    [get_bucket |-> gb, get_all_buckets |-> "ok",
     all_bucket_names |-> IF found THEN {n_bucket} ELSE {},
     provider |-> TRUE, info_failing |-> inf,
     list_versions |-> lv, list |-> ls,
     versions |-> IF empty THEN <<>> ELSE S3Versions,
     keys |-> IF empty THEN <<>> ELSE S3Keys,
     urlopen |-> url, key_get_acl |-> acl, get_contents |-> cont]

S3Stores ==
    {S3Store(c[1], c[2], b[1], lv, ls, b[2], url, acl, cont) :
        c \in {<<"ok", TRUE>>, <<"S3ResponseError", TRUE>>, <<"S3ResponseError", FALSE>>},
        b \in {<<{}, FALSE>>, <<{"ACL"}, FALSE>>, <<{}, TRUE>>},
        lv \in {"ok", "raises"}, ls \in {"ok", "raises"},
        url \in {"ok", "HTTPError", "URLError"},
        acl \in {"ok", "S3ResponseError"}, cont \in {"ok", "S3ResponseError"}}

ListContents == {"None", "first10", "md5", "full", "sha1"}

InitS3 ==
    /\ fsys = NoWorld.F /\ repos = NoWorld.R /\ cwd = <<>>
    /\ called = NotCalled
    /\ outcome = LsResult("none", <<>>, fsys, <<>>, <<>>)
    /\ conv = IdleConv

\* _ls_s3(loc, config_file=config_file, list_content=list_content, **kw)
LsS3(store, loc, recursive, all, config_file, list_content) ==
    /\ called.op = "none"
    /\ called' = [op |-> "_ls_s3", loc |-> loc, recursive |-> recursive, all |-> all,
                  json |-> "None", config_file |-> config_file,
                  list_content |-> list_content, store |-> store]
    /\ \E res \in {_ls_s3(store, loc, recursive, all, config_file, list_content)} :
          outcome' = LsResult(res.exc, <<Routed(loc, "_ls_s3")>>, fsys, res.out, <<>>)
    /\ UNCHANGED <<fsys, repos, cwd, conv>>

\* The locations and list_content values a call is given.
S3Calls ==
    {<<l_s3, lc>> : lc \in ListContents}
    \cup {<<loc, "None">> : loc \in {l_s3q, l_s3bare, l_s3ish}}

NextS3 ==
    /\ called.op = "none"
    /\ \E store \in S3Stores, call \in S3Calls,
          recursive \in BOOLEAN, all \in BOOLEAN, config_file \in BOOLEAN :
           LsS3(store, call[1], recursive, all, config_file, call[2])

SpecS3 == InitS3 /\ [][NextS3]_vars

----------------------------------------------------------------------------
(* The listing command on trees that hold links to directories *)

TreeWorlds ==
    {World([a |-> "f100", annex |-> FALSE], "none", FALSE, sc, subc) :
        sc \in {"b3000Te"} \cup LinkChoices, subc \in SubChoices}

InitTree ==
    /\ \E w \in TreeWorlds : fsys = w.F /\ repos = w.R
    /\ cwd = p_ds
    /\ called = NotCalled
    /\ outcome = LsResult("none", <<>>, fsys, <<>>, <<>>)
    /\ conv = IdleConv

SpecTree == InitTree /\ [][Next]_vars

----------------------------------------------------------------------------
(* What the claims speak of *)

\* The calls and returns of the last command.
Events == {outcome.log[i] : i \in 1..Len(outcome.log)}

\* The records fs_traverse returned for directories, and those _ds_traverse
\* returned for datasets.
TreeRecords == {e.meta : e \in {x \in Events : x.op = "return" /\ x.by = "fs_traverse"}}
DsRecords   == {e.meta : e \in {x \in Events : x.op = "return" /\ x.by = "_ds_traverse"}}
\* The records handed to fs_render.
RenderedRecords == {e.meta : e \in {x \in Events : x.op = "fs_render"}}

\* The places, in a directory record's children list, of the directory's
\* entries: all but the self-entry and the ".." pseudo-entry.
EntryIdx(D) == {i \in 2..Len(D.nodes) : D.nodes[i].name # n_dotdot}

\* The byte count (tenths) a size dictionary records for a size type, as
\* machinesize reads it; 0 for a type the dictionary lacks.
SizeVal(size, t) == IF t \in DOMAIN size THEN machinesize(size[t]).val ELSE 0

\* The sum of what the entries of D from place i on record for size type t.
RECURSIVE EntrySum(_, _, _)
EntrySum(D, t, i) ==
    IF i > Len(D.nodes) THEN 0
    ELSE (IF i \in EntryIdx(D) THEN SizeVal(D.nodes[i].size, t) ELSE 0)
         + EntrySum(D, t, i + 1)

ZeroHuman == [t \in SizeTypes |-> HS(0, "Bytes")]

\* The command walked the dataset and returned.
Walked == called.op = "ls" /\ outcome.exc = "none"
          /\ \E i \in 1..Len(outcome.routes) : outcome.routes[i].route = "_ls_json"

----------------------------------------------------------------------------
(* C1 *)

\* C1 (as claimed): after roll-up, each size category of the record of a
\* directory fs_traverse went through equals the sum of that category over the
\* directory's entries ("." and ".." excluded), a missing category counting 0.
C1_RollUpIsSumOfEntries ==
    \A D \in TreeRecords : \A t \in SizeTypes :
        SizeVal(D.size, t) = EntrySum(D, t, 1)

----------------------------------------------------------------------------
(* C2 *)

\* A name that starts with "."; the sidecar file .dir.json and the directory
\* .git have such names.
HiddenName(nm) == nm # <<>> /\ nm[1] = "."

\* The file system without its dot-files and sidecar files (.git is kept: it
\* is what makes a directory a dataset).
Unhidden(F) ==
    [p \in Paths |->
        IF HiddenName(leaf_name(p)) /\ leaf_name(p) # n_git THEN NoNode ELSE F[p]]

\* Every entry of a record returned or rendered is an entry of the directory
\* with a name that does not start with ".", and the size of a directory's
\* record is made of the sizes of the entries listed and nothing else.
ListedEntriesVisible ==
    /\ \A D \in TreeRecords \cup DsRecords \cup RenderedRecords :
          \A i \in EntryIdx(D) :
              /\ ~HiddenName(D.nodes[i].name)
              /\ D.nodes[i].path = opj(D.path, D.nodes[i].name)
    /\ \A D \in TreeRecords : \A t \in DOMAIN D.size :
          D.size[t] = naturalsize(EntrySum(D, t, 1))

\* C2: in every directory fs_traverse goes through, recursive or not, no
\* dot-file, no sidecar file and no .git directory is among the children
\* listed, and none of them contributes to a size: the records' sizes are
\* made of the listed entries alone, and the whole walk (its calls, records,
\* output and exception) is what it would be without the dot-files and
\* sidecar files.
C2_IgnoredEntriesNeverCount ==
    [][ /\ ListedEntriesVisible'
        /\ \A clean \in {Ls_call(Unhidden(fsys), repos, cwd, called'.loc,
                                 called'.recursive, called'.all, called'.json)} :
              /\ outcome'.exc = clean.exc
              /\ outcome'.log = clean.log
              /\ outcome'.printed = clean.printed ]_vars

\* A dataset holding a dot-file, a sidecar file and .git was walked and the
\* record of its directory, with entries, returned.
C2_Witness ==
    /\ Walked
    /\ exists(fsys, opj(p_ds, n_c)) /\ isdir(fsys, opj(p_ds, n_git))
    /\ \E D \in TreeRecords : D.path = p_ds /\ EntryIdx(D) # {}

----------------------------------------------------------------------------
(* C3 *)

\* The locations of the last call: the current directory when none was given.
GivenLocs == IF called.loc = <<>> THEN <<l_dot>> ELSE called.loc

\* The outcome the shape of a location string asks for.
ShapeRoute(loc) ==
    IF startswith(loc, s3_prefix) THEN "_ls_s3"
    ELSE IF ~lexists(fsys, abspath(cwd, loc)) THEN "unknown"
    ELSE IF ~is_installed(fsys, repos, abspath(cwd, loc)) THEN "ValueError"
    ELSE IF called.json # "None" THEN "_ls_json"
    ELSE "_ls_dataset"

\* path is at or below the directory dir.
AtOrBelow(path, dir) == Len(path) >= Len(dir) /\ SubSeq(path, 1, Len(dir)) = dir

\* C3: Ls.__call__ gives each location it reaches exactly one outcome, the one
\* its shape asks for: "s3://..." goes to _ls_s3; an existing path with no
\* installed dataset raises ValueError with nothing listed or rendered for it;
\* an existing dataset goes to _ls_json when a json mode is given and to
\* _ls_dataset when not; a missing path is reported "unknown" and raises
\* nothing, so the locations after it are still reached.  Locations are
\* reached in order until one raises; an empty list is the current directory.
C3_RoutedByShape ==
    called.op = "ls" =>
        /\ Len(outcome.routes) <= Len(GivenLocs)
        /\ Len(outcome.routes) >= 1
        /\ \A i \in 1..Len(outcome.routes) :
              /\ outcome.routes[i].loc = GivenLocs[i]
              /\ outcome.routes[i].route = ShapeRoute(GivenLocs[i])
              /\ outcome.routes[i].route \in {"_ls_s3", "unknown", "_ls_dataset"}
                    => (outcome.exc = "none" \/ i < Len(outcome.routes))
              /\ outcome.routes[i].route = "ValueError"
                    => /\ i = Len(outcome.routes)
                       /\ outcome.exc = "ValueError"
                       /\ \A e \in Events :
                             ~AtOrBelow(e.path, abspath(cwd, GivenLocs[i]))
              /\ (/\ outcome.routes[i].route = "_ls_json"
                  /\ (outcome.exc = "none" \/ i < Len(outcome.routes)))
                    => \E D \in DsRecords : D.path = abspath(cwd, GivenLocs[i])
        /\ outcome.exc = "none" => Len(outcome.routes) = Len(GivenLocs)
        /\ outcome.exc # "none" =>
              outcome.routes[Len(outcome.routes)].route \in {"ValueError", "_ls_json"}
        /\ \A e \in Events :
              \E i \in 1..Len(outcome.routes) :
                  /\ outcome.routes[i].route = "_ls_json"
                  /\ AtOrBelow(e.path, abspath(cwd, GivenLocs[i]))

\* A call on a dataset, an s3 URL and a missing path gave each its outcome.
C3_Witness ==
    /\ called.op = "ls" /\ called.loc = <<l_ds, l_s3, l_gone>>
    /\ called.json # "None"
    /\ Len(outcome.routes) = 3
    /\ outcome.routes[1].route = "_ls_json"
    /\ outcome.routes[2].route = "_ls_s3"
    /\ outcome.routes[3].route = "unknown"

\* A call on an existing directory that holds no dataset raised.
C3_Raised ==
    /\ called.op = "ls" /\ called.loc = <<l_plain, l_ds>>
    /\ outcome.exc = "ValueError" /\ Len(outcome.routes) = 1

----------------------------------------------------------------------------
(* C4 *)

\* The places of the entries of D that are subdirectories, and of those that
\* are plain ones (no dataset of their own).
SubdirIdx(D) == {i \in EntryIdx(D) : isdir(fsys, D.nodes[i].path)}
PlainSubdirIdx(D) ==
    {i \in SubdirIdx(D) : ~isdir(fsys, opj(D.nodes[i].path, n_git))}

\* C4: when fs_traverse goes through a directory D non-recursively, a
\* subdirectory S of D is only inspected itself, as an entry of D: nothing at
\* or below S is listed, nothing below S is inspected, no record of S is
\* rendered or returned, and the entry of S records "0 Bytes" in every size
\* category whatever S holds.  In recursive mode the entry of S in D's record
\* carries the size of the record returned, and rendered, for S.
C4_SubdirOnlyWhenRecursive ==
    called.op = "ls" =>
        \A D \in TreeRecords :
            /\ ~called.recursive =>
                  /\ \A i \in SubdirIdx(D) : D.nodes[i].size = ZeroHuman
                  /\ \A i \in PlainSubdirIdx(D) : \A e \in Events :
                        AtOrBelow(e.path, D.nodes[i].path)
                            => e.op = "fs_extract" /\ e.path = D.nodes[i].path
            /\ called.recursive =>
                  \A i \in PlainSubdirIdx(D) :
                      \E e \in Events :
                          /\ e.by = "fs_traverse" /\ e.op = "fs_render"
                          /\ e.path = D.nodes[i].path
                          /\ e.meta.size = D.nodes[i].size
                          /\ e.meta \in TreeRecords

\* A dataset whose directory S holds a file b and a directory T was walked
\* non-recursively and the record of the dataset's directory returned.
C4_Witness ==
    /\ Walked /\ ~called.recursive
    /\ isfile(fsys, opj(p_S, n_b)) /\ isdir(fsys, p_T)
    /\ \E D \in TreeRecords :
          D.path = p_ds /\ \E i \in PlainSubdirIdx(D) : D.nodes[i].path = p_S

\* The same dataset was walked recursively: the entry of S carries a size.
C4_WitnessRecursive ==
    /\ Walked /\ called.recursive
    /\ isfile(fsys, opj(p_S, n_b)) /\ isdir(fsys, p_T)
    /\ \E D \in TreeRecords :
          /\ D.path = p_ds
          /\ \E i \in PlainSubdirIdx(D) :
                D.nodes[i].path = p_S /\ D.nodes[i].size # ZeroHuman

----------------------------------------------------------------------------
(* C5 *)

\* The record _ds_traverse returned for the dataset at path p.
DsRecordsAt(p) == {D \in DsRecords : D.path = p}

\* C5 (as claimed): started with `all` set, _ds_traverse passes the flag on, so
\* every linked sub-dataset at every depth is traversed and rendered, and its
\* aggregate size is part of the aggregate of the dataset that links it.
C5_AllReachesEveryDepth ==
    (Walked /\ called.all) =>
        \A p \in DOMAIN repos : \A i \in 1..Len(repos[p].subdatasets) :
            LET sub == opj(p, repos[p].subdatasets[i])
            IN  /\ DsRecordsAt(sub) # {}
                /\ \E e \in Events :
                      e.by = "_ds_traverse" /\ e.op = "fs_render" /\ e.path = sub
                /\ \A D \in DsRecordsAt(sub) : \A A \in DsRecordsAt(p) :
                      \A t \in SizeTypes : SizeVal(A.size, t) >= SizeVal(D.size, t)

----------------------------------------------------------------------------
(* C6 *)

\* The record fs_traverse returned for the directory at path p.
TreeRecordsAt(p) == {D \in TreeRecords : D.path = p}

\* The paths of the sub-datasets the dataset at p links directly and that
\* are installed (one that is not is an empty directory).
DirectSubdatasets(p) ==
    {sub \in {opj(p, repos[p].subdatasets[i]) : i \in 1..Len(repos[p].subdatasets)} :
        is_installed(fsys, repos, sub)}

\* The sum, over the sub-datasets the dataset at p links from place i on, of
\* what the record returned for each records for size type t.
RECURSIVE SubdatasetSum(_, _, _)
SubdatasetSum(p, t, i) ==
    IF i > Len(repos[p].subdatasets) THEN 0
    ELSE LET sub == opj(p, repos[p].subdatasets[i])
         IN  (IF DsRecordsAt(sub) = {} THEN 0
              ELSE SizeVal((CHOOSE D \in DsRecordsAt(sub) : TRUE).size, t))
             + SubdatasetSum(p, t, i + 1)

\* Without `all`, no sub-dataset is visited or rendered: nothing is listed at
\* one or inspected below one, and _ds_traverse runs on the root alone.
NoSubdatasetVisited ==
    /\ \A e \in Events : e.by = "_ds_traverse" => e.path = p_ds
    /\ \A sub \in DirectSubdatasets(p_ds) : \A e \in Events :
          AtOrBelow(e.path, sub) => e.op = "fs_extract" /\ e.path = sub

\* The entry of a sub-dataset in the tree of the dataset that links it
\* records "0 Bytes" in every category.
SubdatasetEntriesZero ==
    \A T \in TreeRecordsAt(p_ds) : \A i \in EntryIdx(T) :
        T.nodes[i].path \in DirectSubdatasets(p_ds) => T.nodes[i].size = ZeroHuman

\* C6 (as claimed): without `all` _ds_traverse visits and renders no
\* sub-dataset and the dataset's aggregate size is the size of its own file
\* tree; with `all` the aggregate is the size of its own tree plus, once, the
\* aggregate of each sub-dataset it links directly; either way the directory
\* entry of a sub-dataset counts 0 in every category.
C6_AggregateIsTreePlusSubdatasets ==
    Walked =>
        /\ SubdatasetEntriesZero
        /\ ~called.all => NoSubdatasetVisited
        /\ \A D \in DsRecordsAt(p_ds) : \A T \in TreeRecordsAt(p_ds) :
              \A t \in SizeTypes :
                  SizeVal(D.size, t) =
                      SizeVal(T.size, t)
                      + (IF called.all THEN SubdatasetSum(p_ds, t, 1) ELSE 0)

\* What of C6 the code does: no sub-dataset is visited without `all`, and a
\* sub-dataset's directory entry counts 0.
C6_VisitsOnlyWithAll ==
    Walked => SubdatasetEntriesZero /\ (~called.all => NoSubdatasetVisited)

----------------------------------------------------------------------------
(* C7 *)

\* The records produced or rendered by fs_traverse and _ds_traverse, and the
\* records fs_extract produced that they hold as children.
ProducedRecords ==
    LET top == TreeRecords \cup DsRecords \cup RenderedRecords
    IN  top \cup UNION {{D.nodes[i] : i \in 1..Len(D.nodes)} : D \in top}

\* The directories whose listing shows no entry.
NothingListed(p) ==
    isdir(fsys, p) /\ \A n \in {q \in Paths : dirname(q) = p /\ lexists(fsys, q)} :
        ignored(fsys, n, TRUE)

\* C7 (as claimed): every record produced or rendered has all five size
\* categories; the record of a directory that is empty, or whose entries are
\* all ignored, has every category at zero and lists only itself (and ".."
\* when a parent was given).
C7_FiveCategoriesAlways ==
    called.op = "ls" =>
        /\ \A D \in ProducedRecords : DOMAIN D.size = SizeTypes
        /\ \A D \in TreeRecords \cup DsRecords \cup RenderedRecords :
              NothingListed(D.path) =>
                  /\ \A t \in SizeTypes : t \in DOMAIN D.size /\ D.size[t].tenths = 0
                  /\ EntryIdx(D) = {}
                  /\ Len(D.nodes) \in {1, 2}
                  /\ D.nodes[1].name = n_dot

\* What of C7 the code does: the record of a directory with nothing to list
\* lists only itself (and ".."), and every record fs_extract produced for an
\* entry has the five categories.
C7_EmptyDirectoryListsItself ==
    called.op = "ls" =>
        \A D \in TreeRecords \cup DsRecords \cup RenderedRecords :
            /\ \A i \in EntryIdx(D) :
                  ~isdir(fsys, D.nodes[i].path) => DOMAIN D.nodes[i].size = SizeTypes
            /\ NothingListed(D.path) =>
                  /\ EntryIdx(D) = {} /\ Len(D.nodes) \in {1, 2}
                  /\ D.nodes[1].name = n_dot
                  /\ D.size = NoSize

----------------------------------------------------------------------------
(* C8 *)

\* C8: each fs_render call on an existing directory succeeds and leaves the
\* directory's sidecar file as its mode says, whatever calls came before:
\* after "file" the sidecar exists and holds the record of this call (an
\* earlier one is overwritten); after "delete" there is none, whether there
\* was one or not; "display" and no mode leave it as it was.  Nothing else in
\* the file system changes.  By induction the sidecar holds, after any
\* sequence of calls, the record of the last "file" call not followed by a
\* "delete".
C8_SidecarFollowsLastCall ==
    [][ (called'.op = "fs_render" /\ isdir(fsys, called'.loc)) =>
            LET sidecar == opj(called'.loc, n_dirjson)
            IN  /\ outcome'.exc = "none"
                /\ called'.json = "file" =>
                      /\ isfile(fsys', sidecar)
                      /\ fsys'[sidecar].content =
                            [written |-> TRUE, meta |-> called'.meta]
                /\ called'.json = "delete" => ~lexists(fsys', sidecar)
                /\ called'.json \in {"display", "None"} => fsys' = fsys
                /\ \A p \in Paths \ {sidecar} : fsys'[p] = fsys[p] ]_vars

\* A "file" call has just overwritten the sidecar another "file" call wrote.
C8_Witness ==
    /\ called.op = "fs_render" /\ called.json = "file" /\ called.loc = p_S
    /\ called.meta # StaleMeta
    /\ outcome.exc = "none"
    /\ isfile(fsys, opj(p_S, n_dirjson))
    /\ fsys[opj(p_S, n_dirjson)].content.meta = called.meta
    /\ isfile(fsys, opj(p_ds, n_dirjson))
    /\ fsys[opj(p_ds, n_dirjson)].content.meta \notin {called.meta, StaleMeta}

\* A "delete" call found no sidecar and succeeded.
C8_DeleteTwice ==
    [][ (called.op = "fs_render" /\ called.json = "delete"
         /\ called'.json = "delete" /\ called'.loc = called.loc
         /\ isdir(fsys, called.loc))
            => outcome'.exc = "none" /\ fsys' = fsys ]_vars

----------------------------------------------------------------------------
(* C9 *)

\* The symbolic links whose target does not exist, and those of them the
\* annex of an annex-backed repository tracks.
BrokenLinks(F) == {p \in Paths : islink(F, p) /\ ~exists(F, p)}
AnnexTracked(p) ==
    \E r \in DOMAIN repos : repos[r].annex /\ p \in DOMAIN repos[r].keys

\* The file system without the links in `gone`.
Without(F, gone) == [p \in Paths |-> IF p \in gone THEN NoNode ELSE F[p]]

\* The entries of the records returned that are broken links.
BrokenEntries ==
    {n \in UNION {{D.nodes[i] : i \in EntryIdx(D)} : D \in TreeRecords} :
        n.path \in BrokenLinks(fsys)}

\* Every record returned by the walk `with` has, in the walk `without`, a
\* record of the same directory with the same byte counts.
SameSizes(with, without) ==
    \A i \in 1..Len(with.log) :
        with.log[i].op = "return" =>
            \E j \in 1..Len(without.log) :
                /\ without.log[j].op = "return"
                /\ without.log[j].by = with.log[i].by
                /\ without.log[j].path = with.log[i].path
                /\ \A t \in SizeTypes :
                      SizeVal(without.log[j].meta.size, t)
                          = SizeVal(with.log[i].meta.size, t)

----------------------------------------------------------------------------
(* C10 *)

Abs(x) == IF x < 0 THEN -x ELSE x

\* C10 (as claimed): making a byte count b a human-readable string and parsing
\* it back with machinesize never fails, gives a value less than one step of
\* the string's unit away from b, and gives b itself when b is a multiple of
\* that step; the same after several levels of roll-up.
C10_RoundTripWithinOneStep ==
    /\ conv.stage # "raised"
    /\ (conv.stage = "bytes" /\ conv.level >= 1) =>
          LET step == 10 * Pow(1024, unit_converter[conv.human.unit])
          IN  /\ Abs(conv.value - 10 * conv.b) < step
              /\ ((10 * conv.b) % step = 0 => conv.value = 10 * conv.b)

----------------------------------------------------------------------------
(* C11: one line per dataset, a failing entry never hides the others *)

\* The datasets a call of _ls_dataset is to list: the top dataset and, when
\* recursive, every sub-dataset registered below it, installed or not.
RECURSIVE RegisteredBelow(_)
RegisteredBelow(p) ==
    IF p \notin DOMAIN repos THEN {}
    ELSE UNION {{opj(p, repos[p].subdatasets[i])}
                \cup RegisteredBelow(opj(p, repos[p].subdatasets[i])) :
                i \in 1..Len(repos[p].subdatasets)}

ListedDatasets ==
    {abspath(cwd, called.loc)}
    \cup (IF called.recursive THEN RegisteredBelow(abspath(cwd, called.loc)) ELSE {})

\* The lines printed that are about the dataset at path p.
LinesOf(p) == {i \in 1..Len(outcome.printed) : abspath(cwd, outcome.printed[i].path) = p}

\* Whether listing the dataset at p fails: it is not installed, or a query the
\* line needs raises (cleanliness unless fast without all, the sizes with all).
EntryFails(p) ==
    \/ p \notin DOMAIN repos
    \/ (~called.fast \/ called.all) /\ "dirty" \in repos[p].failing
    \/ called.all /\ "repo_info" \in repos[p].failing

\* C11: _ls_dataset returns and prints exactly one line per dataset: the line
\* of a dataset whose listing fails carries an error message, the line of every
\* other dataset carries its columns, whatever happened to the other entries.
C11_OneLinePerDataset ==
    called.op = "_ls_dataset" =>
        /\ outcome.exc = "none"
        /\ Len(outcome.printed) = Cardinality(ListedDatasets)
        /\ \A p \in ListedDatasets :
              /\ Cardinality(LinesOf(p)) = 1
              /\ \A i \in LinesOf(p) : (outcome.printed[i].msg # "") <=> EntryFails(p)

\* The part of C11 that holds of the code: when every dataset to list is
\* installed, each gets its one line, with an error message exactly when one
\* of its own queries raised.
C11_InstalledEntriesAllListed ==
    (called.op = "_ls_dataset" /\ ListedDatasets \subseteq DOMAIN repos) =>
        /\ outcome.exc = "none"
        /\ Len(outcome.printed) = Cardinality(ListedDatasets)
        /\ \A p \in ListedDatasets :
              /\ Cardinality(LinesOf(p)) = 1
              /\ \A i \in LinesOf(p) : (outcome.printed[i].msg # "") <=> EntryFails(p)

\* A recursive listing over three installed datasets, one of which failed,
\* printed the error line and the two full lines.
C11_WitnessInstalled ==
    /\ called.op = "_ls_dataset" /\ outcome.exc = "none"
    /\ Len(outcome.printed) = 3
    /\ \E i, j \in 1..3 : outcome.printed[i].msg = "CommandError"
                          /\ outcome.printed[j].msg = ""

\* A recursive listing met a sub-dataset that is not installed.
C11_UninstalledMet ==
    /\ called.op = "_ls_dataset"
    /\ \E p \in ListedDatasets : p \notin DOMAIN repos

----------------------------------------------------------------------------
(* C12: a failing object-store request never aborts the S3 listing *)

\* The call was given a well-formed s3:// URL and a list_content it knows.
S3WellFormed ==
    /\ called.op = "_ls_s3"
    /\ called.loc \in {l_s3, l_s3q}
    /\ called.list_content \in {"None", "first10", "md5", "full"}

\* The entries the listing enumerated: those of the first access method that
\* did not raise.
S3Enumerated == s3_access(called.store, called.recursive).entries

\* The pieces printed that end the line of an entry.
S3LineEnds ==
    SelectSeq(outcome.printed, LAMBDA m : m.what \in {"prefix", "type", "skipped", "key"})

\* C12: whichever object-store requests fail (bucket access by name, the
\* bucket's metadata, list_versions and list, the URL check, the ACL and the
\* content of a key), _ls_s3 returns normally and every entry enumerated has
\* its line, in order.
C12_StoreFailuresNeverAbort ==
    S3WellFormed =>
        /\ outcome.exc = "none"
        /\ Len(S3LineEnds) = Len(S3Enumerated)
        /\ \A i \in 1..Len(S3Enumerated) : S3LineEnds[i].name = S3Enumerated[i].name

\* The part of C12 that holds of the code: when the bucket is reached, one of the
\* two access methods answers and the URL check fails with an HTTP status only,
\* the call returns and every entry enumerated has its line, failed ACL and
\* content requests showing as text on it.
C12_PerKeyFailuresInline ==
    (/\ S3WellFormed
     /\ s3_connect(called.store, n_bucket, called.config_file).exc = "none"
     /\ called.store.list_versions = "ok" \/ called.store.list = "ok"
     /\ called.store.urlopen # "URLError") =>
        /\ outcome.exc = "none"
        /\ Len(S3LineEnds) = Len(S3Enumerated)
        /\ \A i \in 1..Len(S3Enumerated) : S3LineEnds[i].name = S3Enumerated[i].name
        /\ \A i \in 1..Len(S3LineEnds) :
              (S3LineEnds[i].what = "key" /\ called.store.key_get_acl # "ok")
                  => S3LineEnds[i].acl = "S3ResponseError"

\* Both access methods raised.
C12_BothListingsFail ==
    /\ S3WellFormed
    /\ called.store.list_versions = "raises" /\ called.store.list = "raises"
    /\ called.store.get_bucket = "ok"
    /\ outcome.exc = "TypeError"

\* A listing whose ACL and content requests failed printed every line.
C12_WitnessInline ==
    /\ S3WellFormed /\ outcome.exc = "none"
    /\ Len(S3LineEnds) = 4
    /\ \E i \in 1..4 : S3LineEnds[i].acl = "S3ResponseError"
                       /\ S3LineEnds[i].content = " S3ResponseError"

----------------------------------------------------------------------------
(* C14: links to directories are listed, never walked *)

\* The path p is a symbolic link, or leads through one.
ThroughLink(p) == \E k \in 1..Len(p) : islink(fsys, SubSeq(p, 1, k))

\* The places of the listdir calls of the last command.
ListdirIdx == {i \in 1..Len(outcome.log) : outcome.log[i].op = "listdir"}

\* The entries of the records produced that are links to directories.
LinkToDirEntries ==
    {n \in UNION {{D.nodes[i] : i \in 2..Len(D.nodes)} : D \in ProducedRecords} :
        islink(fsys, n.path) /\ isdir(fsys, n.path)}

\* C14: a walk never lists the contents of a symbolic link to a directory nor
\* renders a record for it, the link is an entry of type 'link' whose size is
\* that of a file-like node (nothing in the repository categories), and no
\* directory is listed twice in one walk.
C14_LinkedDirectoryNeverWalked ==
    called.op = "ls" =>
        /\ \A e \in Events : e.op \in {"listdir", "fs_render"} => ~ThroughLink(e.path)
        /\ \A n \in LinkToDirEntries :
              /\ n.type = "link"
              /\ \A t \in DOMAIN n.size : t \notin {"total", "ondisk"} => n.size[t] = HS(0, "Bytes")
        /\ \A i, j \in ListdirIdx :
              realpath(fsys, outcome.log[i].path) = realpath(fsys, outcome.log[j].path)
                  => i = j

\* The part of C14 that holds of the code: without `recursive` no link is
\* walked, and in every walk a link to a directory is an entry of type 'link'.
C14_NeverWalkedUnlessRecursive ==
    called.op = "ls" =>
        /\ ~called.recursive =>
              \A e \in Events : e.op \in {"listdir", "fs_render"} => ~ThroughLink(e.path)
        /\ \A n \in LinkToDirEntries : n.type = "link"

\* A recursive walk met a link to a directory, listed it as a 'link' and
\* listed the contents of the directory under the link's path.
C14_LinkWalked ==
    /\ Walked /\ called.recursive
    /\ LinkToDirEntries # {}
    /\ \E e \in Events : e.op = "listdir" /\ ThroughLink(e.path)

\* A link to the directory that holds it was walked to the depth the kernel
\* resolves links to, and the walk returned.
C14_AncestorLinkWalked ==
    /\ Walked /\ called.recursive
    /\ \E e \in Events : e.op = "listdir" /\ e.path = <<n_ds, n_S, n_b, n_b>>

----------------------------------------------------------------------------
(* C15: the entries '.' and '..' of a directory record *)

\* The records rendered or returned, each with the path it is the record of.
RecordEvents == {e \in Events : e.op \in {"fs_render", "return"}}

\* The directory the walk of the last command started at: it is given no parent.
TopPath == abspath(cwd, called.loc[1])

\* The places of a record's entries that are named '..'.
DotDotIdx(D) == {i \in 1..Len(D.nodes) : D.nodes[i].name = n_dotdot}

\* C15: in every directory record, when it is rendered and when it is
\* returned, the first entry is the directory itself under the name '.'; the
\* record of the top directory has no entry named '..'; in every other record
\* the second entry, and no other, is named '..' and is the parent supplied
\* (the directory above, or the parent dataset's root).
C15_SelfFirstParentSecond ==
    called.op = "ls" =>
        \A e \in RecordEvents : \A D \in {e.meta} :
            /\ Len(D.nodes) >= 1
            /\ D.nodes[1].name = n_dot
            /\ D.nodes[1].path = e.path
            /\ e.path = TopPath => DotDotIdx(D) = {}
            /\ e.path # TopPath =>
                  /\ DotDotIdx(D) = {2}
                  /\ D.nodes[2].path = dirname(e.path)

\* A recursive walk with `all` rendered the top directory, a subdirectory
\* two levels down (after its own subdirectory had been given its self-entry
\* as parent) and a sub-dataset.
C15_Witness ==
    /\ Walked /\ called.recursive /\ called.all
    /\ \E e1, e2, e3, e4 \in RecordEvents :
          /\ e1.op = "fs_render" /\ e1.path = p_ds /\ Len(e1.meta.nodes) >= 3
          /\ e2.op = "fs_render" /\ e2.path = p_T /\ e2.meta.nodes[2].path = p_S
          /\ e3.op = "fs_render" /\ e3.path = p_S /\ e3.meta.nodes[2].path = p_ds
          /\ e4.op = "fs_render" /\ e4.path = p_sub /\ e4.meta.nodes[2].path = p_ds

----------------------------------------------------------------------------
(* C16: every directory visited is rendered once, after its roll-up *)

\* The places of the fs_render calls of the last command, and the directory
\* (the real one, whatever path led to it) an event is about.
RenderIdx == {i \in 1..Len(outcome.log) : outcome.log[i].op = "fs_render"}
DirOf(i)  == realpath(fsys, outcome.log[i].path)

\* The dataset roots the dataset walker went through.
DsRoots ==
    {e.path : e \in {x \in Events : x.by = "_ds_traverse" /\ x.op \in {"fs_render", "return"}}}

\* Path p lies strictly below path q.
StrictlyBelow(p, q) == Len(p) > Len(q) /\ SubSeq(p, 1, Len(q)) = q

\* What C16 asks of a walk:
\*  - every directory listed is rendered after it was listed, exactly once,
\*    and nothing else is rendered;
\*  - a directory is rendered after every directory below it;
\*  - the record rendered is rolled up: an entry that is a directory the tree
\*    walker rendered carries the size of the record rendered for it;
\*  - a dataset root is rendered by the dataset walker, every other directory
\*    by the tree walker.
RenderDiscipline ==
    /\ \A i \in ListdirIdx :
          Cardinality({j \in RenderIdx : DirOf(j) = DirOf(i)}) = 1
    /\ \A j \in RenderIdx :
          \E i \in ListdirIdx : i < j /\ outcome.log[i].path = outcome.log[j].path
    /\ \A j, k \in RenderIdx :
          StrictlyBelow(outcome.log[j].path, outcome.log[k].path) => j < k
    /\ \A k \in RenderIdx : \A D \in {outcome.log[k].meta} :
          \A n \in 2..Len(D.nodes) : \A j \in RenderIdx :
              (outcome.log[j].by = "fs_traverse" /\ D.nodes[n].name # n_dotdot
               /\ outcome.log[j].path = D.nodes[n].path)
                  => j < k /\ D.nodes[n].size = outcome.log[j].meta.size
    /\ \A j \in RenderIdx :
          (outcome.log[j].by = "_ds_traverse") <=> (outcome.log[j].path \in DsRoots)

\* C16: in a walk with a json mode that returns, every directory visited is
\* rendered exactly once and after its roll-up: subdirectories before the
\* directory that holds them, a dataset root by the dataset walker only, after
\* its sub-datasets; no directory is rendered twice, none visited is left out.
C16_RenderedOnceAfterRollUp == Walked => RenderDiscipline

\* The part of C16 that holds of the code: a walk that went through no link
\* to a directory keeps the discipline.
C16_RenderedOnceUnlessLinkWalked ==
    (Walked /\ \A e \in Events : e.op = "listdir" => ~ThroughLink(e.path))
        => RenderDiscipline

\* A recursive walk with `all` rendered a subdirectory two levels down, the
\* directory above it, a sub-dataset and then the top dataset.
C16_WitnessOrdered ==
    /\ Walked /\ called.recursive /\ called.all
    /\ \E i, j, k, l \in RenderIdx :
          /\ i < j /\ j < k /\ k < l
          /\ outcome.log[i].path = p_T /\ outcome.log[j].path = p_S
          /\ outcome.log[k].path = p_sub /\ outcome.log[k].by = "_ds_traverse"
          /\ outcome.log[l].path = p_ds /\ outcome.log[l].by = "_ds_traverse"

\* A directory was rendered twice: under its own path and under a link's.
C16_RenderedTwice ==
    /\ Walked
    /\ \E j, k \in RenderIdx : j # k /\ DirOf(j) = DirOf(k)

====
